---- MODULE Spec2Model ----
(***************************************************************************)
(* Dialogue state engine of MachuEngine/chatbot-ai: the session store, the *)
(* context normalizer (nlu/normalizer.py), the follow-up classifier        *)
(* (nlu/followup.py), the slot/action validator (nlu/validator.py) with    *)
(* the kiosk and driving policies, and the per-turn handler (api/chat.py). *)
(*                                                                         *)
(* Python values are tagged records: [t |-> "none"], [t |-> "str", s |->   *)
(* <<chars>>], [t |-> "int", n |-> 3], [t |-> "dict", d |-> function],     *)
(* [t |-> "list", l |-> sequence].  A text is a sequence of characters, a  *)
(* character a one-letter string; a hangul syllable is one character,      *)
(* written as its romanisation with the prefix k_ (k_ju k_mun = 주문).     *)
(* A Python dict is a function whose DOMAIN is its key set.                *)
(***************************************************************************)
EXTENDS Integers, Sequences, FiniteSets, TLC

VARIABLES store, loaded, req, nlu2, action, inflight, unparsable, resp, probe, history

vars == <<store, loaded, req, nlu2, action, inflight, unparsable, resp, probe, history>>

\* what the requests in flight and the outcome of the last request add to a turn
\* (probe is the last call of a function of the engine made on its own)
rvars == <<inflight, unparsable, resp, probe>>

----------------------------------------------------------------------------
(* Python values *)

NoneV == [t |-> "none"]
StrV(s) == [t |-> "str", s |-> s]
IntV(n) == [t |-> "int", n |-> n]
DictV(d) == [t |-> "dict", d |-> d]
ListV(l) == [t |-> "list", l |-> l]

IsNone(v) == v.t = "none"
IsStr(v) == v.t = "str"
IsInt(v) == v.t = "int"
IsDict(v) == v.t = "dict"
IsList(v) == v.t = "list"

EmptyDict == <<>>

\* dict.get(k): the value, None for a missing key
Get(d, k) == IF k \in DOMAIN d THEN d[k] ELSE NoneV

\* dict with key k set to v (d[k] = v)
Put(d, k, v) == [x \in (DOMAIN d) \cup {k} |-> IF x = k THEN v ELSE d[x]]

\* dict.pop(k, None)
Pop(d, k) == [x \in (DOMAIN d) \ {k} |-> d[x]]

\* a.update(b)
Update(a, b) == [x \in (DOMAIN a) \cup (DOMAIN b) |-> IF x \in DOMAIN b THEN b[x] ELSE a[x]]

\* a slot as the NLU emits it: {"value": v, "confidence": c}; c in hundredths
Slot(v, c) == DictV([value |-> v, confidence |-> IntV(c)])

\* a local variable: f is [x \in {v} |-> body], the body with x naming the value v
With(f) == f[CHOOSE x \in DOMAIN f : TRUE]

----------------------------------------------------------------------------
(* Texts *)

LowerMap ==
  [c \in {"A","B","C","D","E","F","G","H","I","J","K","L","M","N","O","P","Q","R","S","T","U","V","W","X","Y","Z"} |->
     CASE c = "A" -> "a" [] c = "B" -> "b" [] c = "C" -> "c" [] c = "D" -> "d"
       [] c = "E" -> "e" [] c = "F" -> "f" [] c = "G" -> "g" [] c = "H" -> "h"
       [] c = "I" -> "i" [] c = "J" -> "j" [] c = "K" -> "k" [] c = "L" -> "l"
       [] c = "M" -> "m" [] c = "N" -> "n" [] c = "O" -> "o" [] c = "P" -> "p"
       [] c = "Q" -> "q" [] c = "R" -> "r" [] c = "S" -> "s" [] c = "T" -> "t"
       [] c = "U" -> "u" [] c = "V" -> "v" [] c = "W" -> "w" [] c = "X" -> "x"
       [] c = "Y" -> "y" [] c = "Z" -> "z"]

LowerLetters == {LowerMap[c] : c \in DOMAIN LowerMap}
Digits == {"0","1","2","3","4","5","6","7","8","9"}
\* The hangul syllables of the model's texts.  A word list of the source is
\* modelled by its words spelled within this alphabet and the ASCII one: a word
\* with any other syllable occurs in no text of the model.
Hangul == {"k_ju","k_mun","k_se","k_yo","k_a","k_i","k_seu","k_hat","k_keun","k_du",
           "k_gae","k_jan","k_han","k_ha","k_na","k_bun","k_su","k_ui","k_gwa",
           "k_geu","k_geo","k_deot","k_sem","k_e","k_eo","k_keon","k_hi","k_teo",
           "k_reom","k_ya","k_nya"}
\* the punctuation characters of _normalize_korean_text that the model's texts use
Punct == {".", ",", "!", "?", "(", ")", ":", ";", "~", "-"}

IsSpace(c) == c = " "
LowerCh(c) == IF c \in DOMAIN LowerMap THEN LowerMap[c] ELSE c
UpperCh(c) == IF \E u \in DOMAIN LowerMap : LowerMap[u] = c
              THEN CHOOSE u \in DOMAIN LowerMap : LowerMap[u] = c ELSE c
\* \w of Python's re: letters, digits, underscore, hangul
IsWordCh(c) == c \in LowerLetters \cup (DOMAIN LowerMap) \cup Digits \cup Hangul \cup {"_"}

\* str.lower()
Lower(s) == [i \in 1..Len(s) |-> LowerCh(s[i])]

RECURSIVE LStrip(_)
LStrip(s) == IF s # <<>> /\ IsSpace(Head(s)) THEN LStrip(Tail(s)) ELSE s

RECURSIVE RStrip(_)
RStrip(s) == IF s # <<>> /\ IsSpace(s[Len(s)]) THEN RStrip(SubSeq(s, 1, Len(s) - 1)) ELSE s

\* str.strip()
Strip(s) == RStrip(LStrip(s))

NotSpace(c) == ~IsSpace(c)
\* re.sub(r"\s+", "", s)
RemoveSpaces(s) == SelectSeq(s, NotSpace)

\* sub in s
Contains(s, sub) ==
  \E i \in 1..(Len(s) - Len(sub) + 1) : SubSeq(s, i, i + Len(sub) - 1) = sub

ContainsAny(s, subs) == \E w \in subs : Contains(s, w)

StartsWith(s, p) == Len(s) >= Len(p) /\ SubSeq(s, 1, Len(p)) = p
EndsWith(s, p) == Len(s) >= Len(p) /\ SubSeq(s, Len(s) - Len(p) + 1, Len(s)) = p

\* re.split(r"\s+", s): the maximal runs of non-space characters of a stripped text
RECURSIVE SplitSpaces(_, _, _)
SplitSpaces(s, cur, acc) ==
  IF s = <<>> THEN (IF cur = <<>> THEN acc ELSE Append(acc, cur))
  ELSE IF IsSpace(Head(s))
       THEN SplitSpaces(Tail(s), <<>>, IF cur = <<>> THEN acc ELSE Append(acc, cur))
       ELSE SplitSpaces(Tail(s), Append(cur, Head(s)), acc)

RECURSIVE JoinSpace(_)
JoinSpace(ws) ==
  IF ws = <<>> THEN <<>>
  ELSE IF Len(ws) = 1 THEN ws[1] ELSE ws[1] \o <<" ">> \o JoinSpace(Tail(ws))

IsAlnumHangul(c) == c \in LowerLetters \cup Digits \cup Hangul
\* re.sub(r"[^a-z0-9가-힣]", "", s)
AlnumOnly(s) == SelectSeq(s, IsAlnumHangul)

Min(S) == CHOOSE x \in S : \A y \in S : x <= y

\* \b of Python's re between s[i] and s[i+1] (i = 0 is the start, Len(s) the end)
BoundaryAt(s, i) ==
  LET a == i >= 1 /\ IsWordCh(s[i])
      b == i < Len(s) /\ IsWordCh(s[i + 1])
  IN a # b

\* the literal w matches s at i, ignoring case, with \b before (lead) / after (trail)
MatchesAt(s, i, w, lead, trail) ==
  /\ i + Len(w) - 1 <= Len(s)
  /\ \A j \in 1..Len(w) : LowerCh(s[i + j - 1]) = LowerCh(w[j])
  /\ lead => BoundaryAt(s, i - 1)
  /\ trail => BoundaryAt(s, i + Len(w) - 1)

FirstAlt(s, i, alts, lead, trail) ==
  LET ms == {k \in 1..Len(alts) : MatchesAt(s, i, alts[k], lead, trail)}
  IN IF ms = {} THEN 0 ELSE Min(ms)

\* re.sub(r"(a1|a2|...)", " ", s, flags=re.IGNORECASE) from position i on: leftmost
\* match, alternatives in their order, matches do not overlap
RECURSIVE ReSub(_, _, _, _, _)
ReSub(s, i, alts, lead, trail) ==
  IF i > Len(s) THEN <<>>
  ELSE LET k == FirstAlt(s, i, alts, lead, trail)
       IN IF k = 0 THEN <<s[i]>> \o ReSub(s, i + 1, alts, lead, trail)
          ELSE <<" ">> \o ReSub(s, i + Len(alts[k]), alts, lead, trail)

----------------------------------------------------------------------------
(* Words *)

T_ice == <<"i","c","e">>
T_iced == <<"i","c","e","d">>
T_cold == <<"c","o","l","d">>
T_hot == <<"h","o","t">>
T_warm == <<"w","a","r","m">>
T_small == <<"s","m","a","l","l">>
T_medium == <<"m","e","d","i","u","m">>
T_large == <<"l","a","r","g","e">>
T_size == <<"s","i","z","e">>
T_tall == <<"t","a","l","l">>
T_grande == <<"g","r","a","n","d","e">>
T_venti == <<"v","e","n","t","i">>
T_S == <<"S">>
T_M == <<"M">>
T_L == <<"L">>
T_ok == <<"o","k">>
T_latte == <<"l","a","t","t","e">>
T_iced_latte == <<"i","c","e","d"," ","l","a","t","t","e">>
T_tea == <<"t","e","a">>
T_Tea == <<"T","e","a">>
T_cake == <<"c","a","k","e">>
T_pie == <<"p","i","e">>
T_aiseu == <<"k_a","k_i","k_seu">>
T_hat == <<"k_hat">>
T_keun == <<"k_keun">>
T_jumun == <<"k_ju","k_mun">>
T_juseyo == <<"k_ju","k_se","k_yo">>
T_hana == <<"k_ha","k_na">>
T_du == <<"k_du">>
T_se == <<"k_se">>
T_hanjan == <<"k_han","k_jan">>
T_han_jan == <<"k_han"," ","k_jan">>
T_dujan == <<"k_du","k_jan">>
T_du_jan == <<"k_du"," ","k_jan">>
T_sejan == <<"k_se","k_jan">>
T_se_jan == <<"k_se"," ","k_jan">>
T_tea_juseyo == <<"t","e","a"," ","k_ju","k_se","k_yo">>

----------------------------------------------------------------------------
(* nlu/normalizer.py *)

NoId == "None"

DigitSeq == <<"0","1","2","3","4","5","6","7","8","9">>

\* str(n) of a natural number
RECURSIVE IntDigits(_)
IntDigits(n) == IF n < 10 THEN <<DigitSeq[n + 1]>> ELSE IntDigits(n \div 10) \o <<DigitSeq[(n % 10) + 1]>>

\* str(v) of a slot value
ToStr(v) ==
  IF IsStr(v) THEN v.s
  ELSE IF IsInt(v) THEN IntDigits(v.n)
  ELSE IF IsNone(v) THEN <<"N","o","n","e">>
  ELSE <<"{","}">>

\* a value Python takes as false: None, "", 0, an empty list or dict
Falsy(v) ==
  \/ IsNone(v)
  \/ IsStr(v) /\ v.s = <<>>
  \/ IsInt(v) /\ v.n = 0
  \/ IsList(v) /\ v.l = <<>>
  \/ IsDict(v) /\ DOMAIN v.d = {}

\* _merge_dict(a, b): b wins, a None in b is skipped
MergeDict(a, b) ==
  [k \in (DOMAIN a) \cup {x \in DOMAIN b : ~IsNone(b[x])} |->
     IF k \in DOMAIN b /\ ~IsNone(b[k]) THEN b[k] ELSE a[k]]

\* _slot_value(slot) of the normalizer
SlotValue(slot) == IF IsDict(slot) /\ "value" \in DOMAIN slot.d THEN slot.d["value"] ELSE slot

\* _slot_conf(slot), in hundredths
SlotConf(slot) ==
  IF IsDict(slot) /\ "confidence" \in DOMAIN slot.d /\ IsInt(slot.d["confidence"])
  THEN slot.d["confidence"].n ELSE 0

\* _has_nonempty(v)
HasNonempty(v) ==
  IF IsNone(v) THEN FALSE
  ELSE IF IsStr(v) THEN Strip(v.s) # <<>>
  ELSE IF IsList(v) THEN v.l # <<>>
  ELSE IF IsDict(v) THEN DOMAIN v.d # {}
  ELSE TRUE

NewOrderTriggers ==
  {T_juseyo, T_jumun, T_hana, T_du, T_se, T_hanjan, T_han_jan, T_dujan, T_du_jan, T_sejan, T_se_jan}

\* _looks_like_new_order(msg)
LooksLikeNewOrder(msg) ==
  LET m == Strip(msg) IN m # <<>> /\ ContainsAny(m, NewOrderTriggers)

\* the items [{"group": g, "value": v}, ...] folded into a dict, later items winning;
\* a group name is an identifier without surrounding blanks, so strip() keeps it
RECURSIVE ItemsToDict(_, _)
ItemsToDict(l, acc) ==
  IF l = <<>> THEN acc ELSE ItemsToDict(Tail(l), Put(acc, Head(l).group, Head(l).value))

\* _option_groups_to_dict(v)
OptionGroupsToDict(v) ==
  IF IsNone(v) THEN EmptyDict
  ELSE IF IsDict(v) /\ "value" \in DOMAIN v.d
       THEN LET inner == v.d["value"]
            IN IF IsDict(inner) THEN inner.d
               ELSE IF IsList(inner) THEN ItemsToDict(inner.l, EmptyDict)
               ELSE EmptyDict
  ELSE IF IsDict(v) THEN v.d
  ELSE IF IsList(v) THEN ItemsToDict(v.l, EmptyDict)
  ELSE EmptyDict

\* _wrap_option_groups(og, conf)
WrapOptionGroups(og, conf) == Slot(DictV(og), conf)

\* the first choice of the list that equals text ignoring blanks and case, else None
FirstChoiceMatching(choices, norm) ==
  LET hits == {i \in 1..Len(choices) :
                 IsStr(choices[i]) /\ Lower(RemoveSpaces(choices[i].s)) = norm}
  IN IF hits = {} THEN NoneV ELSE choices[Min(hits)]

\* _choice_match(value, choices)
ChoiceMatch(value, choices) ==
  IF ~IsList(choices) THEN NoneV
  ELSE IF IsNone(value) THEN NoneV
  ELSE LET v == Strip(ToStr(value))
       IN IF v = <<>> THEN NoneV
          ELSE FirstChoiceMatching(choices.l, Lower(RemoveSpaces(v)))

IceWords == {T_aiseu, T_ice, T_iced, T_cold}
HotWords == {T_hat, T_hot}

\* apply_session_rules._norm_temp(s)
NormTemp(s) ==
  LET s2 == Lower(Strip(s))
      s2n == AlnumOnly(s2)
  IN IF s2 = <<>> THEN NoneV
     ELSE IF ContainsAny(s2n, IceWords) THEN StrV(T_ice)
     ELSE IF ContainsAny(s2n, HotWords) THEN StrV(T_hot)
     ELSE NoneV

\* apply_session_rules._norm_size(s)
NormSize(s) ==
  LET s2 == Lower(Strip(s))
      s2n == AlnumOnly(s2)
  IN IF s2 = <<>> THEN NoneV
     ELSE IF s2n # <<>> /\ s2n[1] \in {"s", "m", "l"} THEN StrV(<<UpperCh(s2n[1])>>)
     ELSE IF Contains(s2n, T_small) THEN StrV(T_S)
     ELSE IF Contains(s2n, T_medium) THEN StrV(T_M)
     ELSE IF Contains(s2n, T_large) THEN StrV(T_L)
     ELSE IF Contains(s2n, T_keun) THEN StrV(T_L)
     ELSE IF s2n = T_tall THEN StrV(<<"T","a","l","l">>)
     ELSE IF s2n = T_grande THEN StrV(<<"G","r","a","n","d","e">>)
     ELSE IF s2n = T_venti THEN StrV(<<"V","e","n","t","i">>)
     ELSE NoneV

\* the pending group's value taken from the NLU's option_groups: the offered choice
\* it matches, else the value itself when it is not blank
TakeLlmOptionGroup(cand, pending_choices) ==
  With([matched \in {ChoiceMatch(cand, pending_choices)} |->
  IF ~IsNone(matched) THEN matched
  ELSE IF ~IsNone(cand) /\ Strip(ToStr(cand)) # <<>> THEN StrV(Strip(ToStr(cand)))
  ELSE NoneV])

\* the slots of a resolved answer: the previous option groups, this turn's, the
\* pending group's value and the other options the utterance names, merged
\* a variant of the merge that starts from the option groups of the turn alone
MergePendingFresh(prev_slots, slots_in, pending_group, coerced, extra_updates) ==
  With([og1 \in {OptionGroupsToDict(Get(slots_in, "option_groups"))} |->
  With([og2 \in {IF ~IsNone(coerced) THEN Put(og1, pending_group, coerced) ELSE og1} |->
  Put(slots_in, "option_groups", WrapOptionGroups(Update(og2, extra_updates), 90))])])

MergePendingOptionGroups(prev_slots, slots_in, pending_group, coerced, extra_updates) ==
  With([og1 \in {Update(OptionGroupsToDict(Get(prev_slots, "option_groups")),
              OptionGroupsToDict(Get(slots_in, "option_groups")))} |->
  With([og2 \in {IF ~IsNone(coerced) THEN Put(og1, pending_group, coerced) ELSE og1} |->
  With([s_b \in {Put(slots_in, "option_groups", WrapOptionGroups(Update(og2, extra_updates), 90))} |->
  IF "quantity" \notin DOMAIN s_b /\ "quantity" \in DOMAIN prev_slots
  THEN Put(s_b, "quantity", prev_slots["quantity"]) ELSE s_b])])])

\* the kiosk part without the pending clarification: the NLU result as it came
KioskRulesNoPending(st, n, user_message, intent0) ==
  [intent |-> intent0, slots |-> n.slots, slots_in |-> n.slots]

\* the pending-clarification part of apply_session_rules (domain # "education"):
\* [intent, slots, slots_in] with slots_in the NLU slot dict as the call leaves it
KioskRules(st, n, user_message, intent0) ==
  With([slots_in0 \in {n.slots} |->
  With([prev_slots \in {st.slots} |->
  With([pending_group \in {st.pending_option_group} |->
  With([pending_choices \in {st.pending_option_group_choices} |->
  With([is_pending0 \in {pending_group # NoId /\ st.last_bot_action = "ask_option_group"} |->
  With([intent \in {IF is_pending0 /\ st.active_intent # NoId THEN st.active_intent ELSE intent0} |->
  IF ~is_pending0
  THEN [intent |-> intent, slots |-> slots_in0, slots_in |-> slots_in0]
  ELSE
  With([msg \in {Strip(user_message)} |->
  With([temp_candidate \in {NormTemp(msg)} |->
  With([size_candidate \in {NormSize(msg)} |->
  With([coerced0 \in {IF pending_group = "temperature" THEN temp_candidate
       ELSE IF pending_group = "size" THEN size_candidate ELSE NoneV} |->
  With([extra_updates \in {IF pending_group = "temperature" /\ ~IsNone(size_candidate) THEN [size |-> size_candidate]
       ELSE IF pending_group = "size" /\ ~IsNone(temp_candidate) THEN [temperature |-> temp_candidate]
       ELSE EmptyDict} |->
  With([no_extra \in {DOMAIN extra_updates = {}} |->
  With([og_from_llm \in {OptionGroupsToDict(Get(slots_in0, "option_groups"))} |->
  With([coerced1 \in {IF IsNone(coerced0) /\ no_extra /\ pending_group \in DOMAIN og_from_llm
       THEN TakeLlmOptionGroup(og_from_llm[pending_group], pending_choices)
       ELSE coerced0} |->
  With([coerced \in {IF IsNone(coerced1) /\ IsList(pending_choices)
       THEN FirstChoiceMatching(pending_choices.l, Lower(RemoveSpaces(msg)))
       ELSE coerced1} |->
  With([unresolved \in {IsNone(coerced) /\ no_extra} |->
  With([slots_in1 \in {IF unresolved THEN Pop(slots_in0, "option_groups") ELSE slots_in0} |->
  With([is_pending \in {~(unresolved /\ LooksLikeNewOrder(msg))} |->
  With([slots_in2 \in {IF unresolved THEN slots_in1
       ELSE MergePendingOptionGroups(prev_slots, Pop(slots_in1, "item_name"), pending_group,
                                     coerced, extra_updates)} |->
  [intent |-> intent,
   slots |-> IF is_pending THEN MergeDict(prev_slots, slots_in2) ELSE slots_in2,
   slots_in |-> slots_in2]
  ])])])])])])])])])])])])])])])])])])])

----------------------------------------------------------------------------
(* nlu/followup.py *)

T_geugeo == <<"k_geu","k_geo">>
T_geugeoyo == <<"k_geu","k_geo","k_yo">>
T_igeo == <<"k_i","k_geo">>
T_geureom == <<"k_geu","k_reom">>
T_geureomyo == <<"k_geu","k_reom","k_yo">>

\* _FOLLOWUP_PAT: ^(그럼|...|그럼요|...|그거|그거요|...|이거|...)\b
FollowupPrefixes == <<T_geureom, T_geureomyo, T_geugeo, T_geugeoyo, T_igeo>>
FollowupPat(msg) == msg # <<>> /\ FirstAlt(msg, 1, FollowupPrefixes, FALSE, TRUE) # 0

\* _REFERENTIAL_PAT: (그거|...|이거|...)
ReferentialPat(msg) == ContainsAny(msg, {T_geugeo, T_igeo})

BonusLastAction == 65
BonusShort == 20
BonusPrefix == 25
BonusReferential == 20
BonusQuestion == 10
ShortLen == 10
FollowupThreshold == 55

\* a variant of the heuristic score without the bonus of a pending question
HeuristicScoreNoPending(user_message, st) ==
  LET msg == Strip(user_message)
  IN (IF Len(msg) <= ShortLen THEN BonusShort ELSE 0)
     + (IF FollowupPat(msg) THEN BonusPrefix + BonusQuestion ELSE 0)
     + (IF ReferentialPat(msg) THEN BonusReferential ELSE 0)

\* heuristic_followup_score(user_message, state), in hundredths
HeuristicFollowupScore(user_message, st) ==
  LET msg == Strip(user_message)
      s1 == IF st.last_bot_action \in {"ask_slot", "ask_option_group"} THEN BonusLastAction ELSE 0
      s2 == IF Len(msg) <= ShortLen THEN BonusShort ELSE 0
      s3 == IF FollowupPat(msg) THEN BonusPrefix ELSE 0
      s4 == IF ReferentialPat(msg) THEN BonusReferential ELSE 0
      s5 == IF (\/ Contains(msg, <<"?">>) \/ EndsWith(msg, <<"k_yo">>)
                \/ EndsWith(msg, <<"k_ya">>) \/ EndsWith(msg, <<"k_nya">>)) /\ FollowupPat(msg)
            THEN BonusQuestion ELSE 0
      score == s1 + s2 + s3 + s4 + s5
  IN IF score > 100 THEN 100 ELSE score

\* a JSON true or false
BoolV(b) == [t |-> "bool", b |-> b]
IsBool(v) == v.t = "bool"

\* what the continuation oracle does in a call: it is off (OPENAI_ENABLE_LLM not
\* 1, no key, no model, no SDK), the call raises, or a message content comes back
\* that json.loads reads as data or fails to read
LlmOff == [kind |-> "off", parsed |-> FALSE, data |-> NoneV]
LlmRaises == [kind |-> "raises", parsed |-> FALSE, data |-> NoneV]
LlmNotJson == [kind |-> "content", parsed |-> FALSE, data |-> NoneV]
LlmSays(data) == [kind |-> "content", parsed |-> TRUE, data |-> data]

\* float(v or 0.0) returns: a falsy value, a number, a text of digits
FloatOk(v) ==
  \/ Falsy(v) \/ IsInt(v) \/ IsBool(v)
  \/ IsStr(v) /\ \A i \in 1..Len(v.s) : v.s[i] \in Digits

\* bool(v)
Truthy(v) == IF IsBool(v) THEN v.b ELSE ~Falsy(v)

\* llm_is_followup(user_message, state): "none" for None, else the verdict read
\* from the content: data.get raises on what is not an object, float on a
\* confidence that is no number, and both are caught
LlmIsFollowup(r) ==
  IF r.kind # "content" \/ ~r.parsed \/ ~IsDict(r.data) THEN "none"
  ELSE IF ~FloatOk(Get(r.data.d, "confidence")) THEN "none"
  ELSE IF Truthy(Get(r.data.d, "is_followup")) THEN "yes" ELSE "no"

\* is_followup(user_message, state): llm is what llm_is_followup returned,
\* "none" (disabled, no key, no model, no SDK, any exception), "yes" or "no"
IsFollowup(user_message, st, llm) ==
  IF llm # "none" THEN llm = "yes"
  ELSE HeuristicFollowupScore(user_message, st) >= FollowupThreshold

----------------------------------------------------------------------------
(* nlu/normalizer.py, education *)

EDU_PREFERENCE_KEYS ==
  {"level", "subject", "style", "include_examples", "example_type", "language",
   "length", "tone", "target_improvements"}

EDU_CONTEXT_KEYS == {"topic", "content", "student_answer", "question"}

TOPIC_GROUNDED_MINLEN == 2

NotPunct(c) == c \notin Punct
\* _normalize_korean_text(s)
NormalizeKoreanText(s) == SelectSeq(RemoveSpaces(Strip(s)), NotPunct)

\* _extract_topic_keywords(topic): the particles 의, 과 become blanks, the parts of
\* two characters or more are the keywords
ExtractTopicKeywords(topic) ==
  LET t == Strip(topic)
      parts == SplitSpaces(ReSub(t, 1, <<<<"k_ui">>, <<"k_gwa">>>>, FALSE, FALSE), <<>>, <<>>)
  IN IF t = <<>> THEN {}
     ELSE {parts[i] : i \in {j \in 1..Len(parts) : Len(parts[j]) >= TOPIC_GROUNDED_MINLEN}}

\* _should_keep_new_topic_when_not_followup(user_message, topic_new_val)
ShouldKeepNewTopic(user_message, topic_new_val) ==
  LET msg == Strip(user_message) IN
  IF msg = <<>> THEN FALSE
  ELSE IF ~IsStr(topic_new_val) THEN FALSE
  ELSE LET t == Strip(topic_new_val.s)
           msg_norm == NormalizeKoreanText(msg)
           t_norm == NormalizeKoreanText(t)
       IN IF Len(t) < TOPIC_GROUNDED_MINLEN THEN FALSE
          ELSE \/ Contains(msg, t)
               \/ t_norm # <<>> /\ Contains(msg_norm, t_norm)
               \/ \E kw \in ExtractTopicKeywords(t) :
                    NormalizeKoreanText(kw) # <<>> /\ Contains(msg_norm, NormalizeKoreanText(kw))

Restrict(d, keys) == [k \in (DOMAIN d) \cap keys |-> d[k]]
Without(d, keys) == [k \in (DOMAIN d) \ keys |-> d[k]]

TopicMinConf == 35

\* the preferences merged (sticky), then the other slots that are neither
\* preference nor context
EduMergedSlots(prev_slots, slots_in) ==
  With([special_keys \in {EDU_PREFERENCE_KEYS \cup EDU_CONTEXT_KEYS} |->
  MergeDict(MergeDict(MergeDict(Restrict(prev_slots, EDU_PREFERENCE_KEYS),
                                Restrict(slots_in, EDU_PREFERENCE_KEYS)),
                      Without(prev_slots, special_keys)),
            Without(slots_in, special_keys))])

\* a follow-up: the new topic when it has a value and enough confidence, else the
\* previous one
EduFollowup(merged, prev_slots, slots_in) ==
  With([topic_slot_new \in {Get(slots_in, "topic")} |->
  With([topic_slot_prev \in {Get(prev_slots, "topic")} |->
  IF ~HasNonempty(SlotValue(topic_slot_new)) \/ SlotConf(topic_slot_new) < TopicMinConf
  THEN IF HasNonempty(SlotValue(topic_slot_prev)) THEN Put(merged, "topic", topic_slot_prev)
       ELSE Pop(merged, "topic")
  ELSE Put(merged, "topic", topic_slot_new)])])

\* no follow-up: the context slots are dropped, the new topic kept when the
\* utterance grounds it
EduReset(merged, slots_in, user_message) ==
  With([topic_slot_new \in {Get(slots_in, "topic")} |->
  IF /\ "topic" \in DOMAIN slots_in
     /\ HasNonempty(SlotValue(topic_slot_new))
     /\ ShouldKeepNewTopic(user_message, SlotValue(topic_slot_new))
  THEN Put(Without(merged, EDU_CONTEXT_KEYS), "topic", topic_slot_new)
  ELSE Without(merged, EDU_CONTEXT_KEYS)])

\* the education part with every turn taken as a follow-up
EduRulesNoReset(st, n, user_message, follow) ==
  EduFollowup(EduMergedSlots(st.slots, n.slots), st.slots, n.slots)

\* the education part of apply_session_rules: the merged slots
EduRules(st, n, user_message, follow) ==
  IF ~follow THEN EduReset(EduMergedSlots(st.slots, n.slots), n.slots, user_message)
  ELSE EduFollowup(EduMergedSlots(st.slots, n.slots), st.slots, n.slots)

\* x or y on identifiers
OrId(x, y) == IF x # NoId THEN x ELSE y

\* apply_session_rules(state, nlu, user_message): [domain, intent, slots, slots_in]
ApplySessionRules(st, n, user_message, llm) ==
  With([domain \in {OrId(n.domain, st.current_domain)} |->
  IF domain # "education"
  THEN With([k \in {KioskRules(st, n, user_message, OrId(n.intent, st.active_intent))} |->
       [domain |-> domain, intent |-> k.intent, slots |-> k.slots, slots_in |-> k.slots_in]])
  ELSE [domain |-> domain, intent |-> OrId(n.intent, st.active_intent),
        slots |-> EduRules(st, n, user_message, IsFollowup(user_message, st, llm)),
        slots_in |-> n.slots]])

----------------------------------------------------------------------------
(* domain/kiosk: the catalog and the add_item policy *)

StoreId == "store_01"
KioskType == "cafe"

NoItem == [found |-> FALSE, name |-> <<>>, option_groups |-> EmptyDict, required_option_groups |-> <<>>]

\* The menu of the store: a drink with both groups required (seed_menu_db.py),
\* a drink whose required list is empty and whose temperature choices are
\* written as in the MenuItem comment, and a dessert without options.
Catalog ==
  << [found |-> TRUE, name |-> T_latte,
     option_groups |-> [temperature |-> <<StrV(T_hot), StrV(T_ice)>>,
                        size |-> <<StrV(T_S), StrV(T_M), StrV(T_L)>>],
     required_option_groups |-> <<"temperature", "size">>],
    [found |-> TRUE, name |-> T_tea,
     option_groups |-> [temperature |-> <<StrV(T_hot), StrV(T_iced)>>],
     required_option_groups |-> <<>>],
    [found |-> TRUE, name |-> T_cake,
     option_groups |-> EmptyDict,
     required_option_groups |-> <<>>] >>

\* _safe_str(x)
SafeStr(v) == IF IsNone(v) THEN <<>> ELSE ToStr(v)

\* SQLiteCatalogRepo.get_item_by_name: exact match of the stripped name, NOCASE
GetItemByName(store_id, kiosk_type, name) ==
  LET nm == Strip(SafeStr(name))
      hits == {i \in 1..Len(Catalog) : Lower(Catalog[i].name) = Lower(nm)}
  IN IF nm = <<>> \/ store_id # StoreId \/ kiosk_type # KioskType \/ hits = {} THEN NoItem
     ELSE Catalog[Min(hits)]

\* _unwrap_slot_value(v) of the policy
UnwrapSlotValue(v) == IF IsDict(v) /\ "value" \in DOMAIN v.d THEN v.d["value"] ELSE v

\* the list without its blank and repeated names, order kept
RECURSIVE Dedupe(_, _)
Dedupe(l, acc) ==
  IF l = <<>> THEN acc
  ELSE IF Head(l) = "" \/ \E i \in 1..Len(acc) : acc[i] = Head(l)
       THEN Dedupe(Tail(l), acc) ELSE Dedupe(Tail(l), Append(acc, Head(l)))

\* the required option groups of a catalog item: the declared list, or the
\* temperature group inferred from its choices when nothing is declared
RequiredOf(it) ==
  Dedupe(IF it.required_option_groups # <<>> THEN it.required_option_groups
         ELSE IF "temperature" \in DOMAIN it.option_groups /\ it.option_groups["temperature"] # <<>>
              THEN <<"temperature">> ELSE <<>>, <<>>)

\* get_required_option_groups_for_add_item(req, slots, catalog)
GetRequiredOptionGroups(meta, slots) ==
  LET item_name == Strip(SafeStr(UnwrapSlotValue(Get(slots, "item_name"))))
      it == GetItemByName(meta.store_id, meta.kiosk_type, StrV(item_name))
  IN IF meta.store_id = NoId \/ meta.kiosk_type = NoId THEN <<>>
     ELSE IF item_name = <<>> THEN <<>>
     ELSE IF ~it.found THEN <<>>
     ELSE RequiredOf(it)

\* a value find_missing_required_option_group takes as not given
BlankOption(v) == IsNone(v) \/ (IsStr(v) /\ Strip(v.s) = <<>>)

\* the check that takes every required group as given
FindNoMissingOptionGroup(required_groups, og_dict) == NoId

\* find_missing_required_option_group(required_groups, option_groups_slot): the
\* first required group without a value, NoId when there is none
FindMissingRequiredOptionGroup(required_groups, og_dict) ==
  LET miss == {i \in 1..Len(required_groups) : BlankOption(Get(og_dict, required_groups[i]))}
  IN IF miss = {} THEN NoId ELSE required_groups[Min(miss)]

----------------------------------------------------------------------------
(* domain/driving/policy.py *)

T_window == <<"w","i","n","d","o","w">>
T_sunroof == <<"s","u","n","r","o","o","f">>
T_door_lock == <<"d","o","o","r","_","l","o","c","k">>
T_trunk == <<"t","r","u","n","k">>
T_frunk == <<"f","r","u","n","k">>
T_light == <<"l","i","g","h","t">>
T_wiper == <<"w","i","p","e","r">>
T_mirror == <<"m","i","r","r","o","r">>
T_charge_port == <<"c","h","a","r","g","e","_","p","o","r","t">>
T_seat_heater == <<"s","e","a","t","_","h","e","a","t","e","r">>
T_seat_ventilation == <<"s","e","a","t","_","v","e","n","t","i","l","a","t","i","o","n">>
T_steering_wheel == <<"s","t","e","e","r","i","n","g","_","w","h","e","e","l">>
T_open == <<"o","p","e","n">>
T_Open == <<"O","p","e","n">>
T_close == <<"c","l","o","s","e">>
T_closed == <<"c","l","o","s","e","d">>
T_locked == <<"l","o","c","k","e","d">>
T_unlocked == <<"u","n","l","o","c","k","e","d">>
T_on == <<"o","n">>
T_off == <<"o","f","f">>
T_lock == <<"l","o","c","k">>
T_unlock == <<"u","n","l","o","c","k">>
T_driver == <<"d","r","i","v","e","r">>
T_passenger == <<"p","a","s","s","e","n","g","e","r">>
T_rear == <<"r","e","a","r">>
T_rear_left == <<"r","e","a","r","_","l","e","f","t">>
T_rear_right == <<"r","e","a","r","_","r","i","g","h","t">>
T_all == <<"a","l","l">>
T_front == <<"f","r","o","n","t">>
T_heat == <<"h","e","a","t">>
T_heater == <<"h","e","a","t","e","r">>
T_cool == <<"c","o","o","l">>
T_ac == <<"a","c">>
T_cool_mode == <<"c","o","o","l"," ","m","o","d","e">>
T_auto == <<"a","u","t","o">>
T_hvac == <<"h","v","a","c">>
T_hvac_rear == <<"h","v","a","c","_","r","e","a","r">>
T_hvac_passenger == <<"h","v","a","c","_","p","a","s","s","e","n","g","e","r">>
T_home == <<"h","o","m","e">>
T_FAIL == <<"F","A","I","L">>
T_eeokeon == <<"k_e","k_eo","k_keon">>
T_hiteo == <<"k_hi","k_teo">>

\* _norm(val): "" unless a string, else lowered and stripped
Norm(v) == IF IsStr(v) THEN Strip(Lower(v.s)) ELSE <<>>

\* _get_slot_value(slots, key) of the policy, _slot_value(slots, key) of the validator
GetSlotValue(slots, key) ==
  LET v == Get(slots, key) IN IF IsDict(v) THEN Get(v.d, "value") ELSE v

InList(x, l) == \E i \in 1..Len(l) : l[i] = x

\* f"window_{loc}", f"seat_heater_{loc}", f"seat_ventilation_{loc}"
LocKey(prefix, loc) ==
  CASE prefix = "window" /\ loc = T_driver -> "window_driver"
    [] prefix = "window" /\ loc = T_passenger -> "window_passenger"
    [] prefix = "window" /\ loc = T_rear_left -> "window_rear_left"
    [] prefix = "window" /\ loc = T_rear_right -> "window_rear_right"
    [] prefix = "seat_heater" /\ loc = T_driver -> "seat_heater_driver"
    [] prefix = "seat_heater" /\ loc = T_passenger -> "seat_heater_passenger"
    [] prefix = "seat_ventilation" /\ loc = T_driver -> "seat_ventilation_driver"
    [] prefix = "seat_ventilation" /\ loc = T_passenger -> "seat_ventilation_passenger"

AllWindows == {"window_driver", "window_passenger", "window_rear_left", "window_rear_right"}
BasicParts == {T_door_lock, T_light, T_wiper, T_mirror, T_trunk, T_frunk}
RearLocs == {T_rear, T_rear_left, T_rear_right}

\* check_action_validity: (A) the feature name of a hardware part
FeatureName(part, loc) ==
  IF part = T_seat_heater
  THEN (IF loc \in RearLocs THEN T_seat_heater \o <<"_">> \o T_rear ELSE T_seat_heater \o <<"_">> \o T_front)
  ELSE IF part = T_seat_ventilation
  THEN (IF loc \in RearLocs THEN T_seat_ventilation \o <<"_">> \o T_rear ELSE T_seat_ventilation \o <<"_">> \o T_front)
  ELSE IF part = T_steering_wheel THEN T_steering_wheel \o <<"_">> \o T_heater
  ELSE part

\* check_action_validity: (C) the status keys a hardware request is compared with
TargetKeys(part, loc, current_status) ==
  IF part = T_window
  THEN (IF loc \in {T_driver, T_passenger, T_rear_left, T_rear_right}
        THEN {LocKey("window", loc)} ELSE AllWindows \cap DOMAIN current_status)
  ELSE IF part = T_seat_heater
  THEN (IF loc \in {T_driver, T_passenger} THEN {LocKey("seat_heater", loc)}
        ELSE IF loc = T_rear THEN {"seat_heater_rear_left", "seat_heater_rear_right"}
        ELSE {"seat_heater_driver"})
  ELSE IF part = T_seat_ventilation
  THEN (IF loc \in {T_driver, T_passenger} THEN {LocKey("seat_ventilation", loc)} ELSE {})
  ELSE IF part = T_sunroof THEN {"sunroof"}
  ELSE IF part = T_steering_wheel THEN {"steering_wheel_heat"}
  ELSE IF part = T_door_lock THEN {"door_lock"}
  ELSE {}

\* DRIVING_SCHEMA: the required_slots of an intent
RequiredSlots(intent) ==
  CASE intent = "control_hardware" -> {"target_part", "action"}
    [] intent = "control_hvac" -> {"action"}
    [] intent = "navigate_to" -> {"destination"}
    [] intent = "find_poi" -> {"poi_type"}
    [] OTHER -> {}

\* check_action_validity(intent, slots, current_status, supported_features):
\* the conflict reason, NoId for None
CheckActionValidity(intent, slots, current_status, supported_features) ==
  LET use_support_check == ~IsNone(supported_features)
      feats == IF IsList(supported_features) THEN supported_features.l ELSE <<>>
  IN
  IF DOMAIN current_status = {} THEN NoId
  ELSE IF intent = "control_hardware"
  THEN LET part == Norm(GetSlotValue(slots, "target_part"))
           act == Norm(GetSlotValue(slots, "action"))
           loc == Norm(GetSlotValue(slots, "location_detail"))
           target_keys == TargetKeys(part, loc, current_status)
           vals == {current_status[k] : k \in target_keys \cap DOMAIN current_status}
       IN IF /\ use_support_check
             /\ part \notin BasicParts
             /\ ~InList(StrV(FeatureName(part, loc)), feats)
             /\ part # T_window
          THEN "feature_not_supported"
          ELSE IF target_keys = {} \/ vals = {} THEN NoId
          ELSE IF act = T_close /\ vals = {StrV(T_closed)} THEN "already_closed"
          ELSE IF act = T_open /\ vals = {StrV(T_open)} THEN "already_open"
          ELSE IF act = T_on /\ vals = {StrV(T_on)} THEN "already_on"
          ELSE IF act = T_off /\ vals = {StrV(T_off)} THEN "already_off"
          ELSE NoId
  ELSE IF intent = "control_hvac"
  THEN LET act == Norm(GetSlotValue(slots, "action"))
           seat_loc == Norm(GetSlotValue(slots, "seat_location"))
           has_hvac == \E i \in 1..Len(feats) : IsStr(feats[i]) /\ Contains(feats[i].s, T_hvac)
       IN IF use_support_check /\ seat_loc = T_rear /\ ~InList(StrV(T_hvac_rear), feats)
          THEN "feature_not_supported"
          ELSE IF use_support_check /\ seat_loc = T_passenger /\ ~InList(StrV(T_hvac_passenger), feats)
          THEN "feature_not_supported"
          ELSE IF use_support_check /\ (seat_loc = <<>> \/ seat_loc \in {T_driver, T_all}) /\ ~has_hvac
          THEN "feature_not_supported"
          ELSE IF act = T_off /\ Get(current_status, "hvac_power") = StrV(T_off) THEN "hvac_already_off"
          ELSE NoId
  ELSE NoId

\* int(x): [ok, n]; a text converts when it is digits between blanks
RECURSIVE DigitsValue(_, _)
DigitsValue(s, acc) ==
  IF s = <<>> THEN acc
  ELSE DigitsValue(Tail(s), 10 * acc + (CHOOSE k \in 0..9 : DigitSeq[k + 1] = Head(s)))

\* a variant of the conversion that takes no string for a number
ToIntNoStrings(v) ==
  IF IsInt(v) THEN [ok |-> TRUE, n |-> v.n] ELSE [ok |-> FALSE, n |-> 0]

ToInt(v) ==
  IF IsInt(v) THEN [ok |-> TRUE, n |-> v.n]
  ELSE IF v.t = "bool" THEN [ok |-> TRUE, n |-> IF v.b THEN 1 ELSE 0]
  ELSE IF ~IsStr(v) THEN [ok |-> FALSE, n |-> 0]
  ELSE With([t \in {Strip(v.s)} |->
       With([signed \in {t # <<>> /\ Head(t) \in {"-", "+"}} |->
       With([d \in {IF signed THEN Tail(t) ELSE t} |->
       IF d # <<>> /\ \A i \in 1..Len(d) : d[i] \in Digits
       THEN [ok |-> TRUE, n |-> IF signed /\ Head(t) = "-" THEN 0 - DigitsValue(d, 0) ELSE DigitsValue(d, 0)]
       ELSE [ok |-> FALSE, n |-> 0]])])])

TempHeat == 28
TempCool == 18
TempDefault == 22
TempMin == 16
TempMax == 32

NoCommand == [type |-> "none", params |-> EmptyDict]

\* build_vehicle_command(intent, slots)
BuildVehicleCommand(intent, slots) ==
  IF intent = "control_hvac"
  THEN With([act0 \in {Norm(GetSlotValue(slots, "action"))} |->
       With([act \in {IF act0 = <<>> THEN T_on ELSE act0} |->
       With([mode \in {Norm(GetSlotValue(slots, "hvac_mode"))} |->
       With([temp_val \in {GetSlotValue(slots, "target_temp")} |->
       With([t1 \in {IF IsNone(temp_val)
            THEN (IF mode = T_heat THEN IntV(TempHeat)
                  ELSE IF mode = T_cool THEN IntV(TempCool)
                  ELSE IF mode = T_auto \/ act = T_on THEN IntV(TempDefault)
                  ELSE NoneV)
            ELSE temp_val} |->
       With([c \in {ToInt(t1)} |->
       With([t2 \in {IF IsNone(t1) THEN NoneV
            ELSE IF ~c.ok THEN IntV(TempDefault)
            ELSE IF c.n < TempMin THEN IntV(TempMin)
            ELSE IF c.n > TempMax THEN IntV(TempMax)
            ELSE IntV(c.n)} |->
       [type |-> "hvac_control",
        params |-> [action |-> StrV(act), hvac_mode |-> StrV(mode),
                    target_temp |-> IF act = T_off THEN NoneV ELSE t2,
                    seat_location |-> GetSlotValue(slots, "seat_location"),
                    fan_speed |-> GetSlotValue(slots, "fan_speed")]]])])])])])])])
  ELSE IF intent = "control_hardware"
  THEN [type |-> "hardware_control",
        params |-> [part |-> StrV(Norm(GetSlotValue(slots, "target_part"))),
                    action |-> StrV(Norm(GetSlotValue(slots, "action"))),
                    location_detail |-> GetSlotValue(slots, "location_detail")]]
  ELSE IF intent = "navigate_to"
  THEN [type |-> "navigation",
        params |-> [destination |-> GetSlotValue(slots, "destination"),
                    waypoint |-> GetSlotValue(slots, "waypoint")]]
  ELSE IF intent = "find_poi"
  THEN [type |-> "search_poi",
        params |-> [poi_type |-> GetSlotValue(slots, "poi_type"),
                    sort_by |-> GetSlotValue(slots, "sort_by")]]
  ELSE NoCommand

----------------------------------------------------------------------------
(* nlu/validator.py *)

\* str(x or "")
StrOrEmpty(v) == IF Falsy(v) THEN <<>> ELSE ToStr(v)

\* act_map of _update_vehicle_status_simulation; <<>> for an action it does not map
ActMap(act) ==
  CASE act = T_open -> T_open
    [] act = T_close -> T_closed
    [] act = T_on -> T_on
    [] act = T_off -> T_off
    [] act = T_lock -> T_locked
    [] act = T_unlock -> T_unlocked
    [] OTHER -> <<>>

\* d with every key of ks set to v
PutAll(d, ks, v) == [x \in (DOMAIN d) \cup ks |-> IF x \in ks THEN v ELSE d[x]]

\* one seat of the heater/ventilation interlock: the seat's key takes val, and
\* turning it on turns the seat's other function off
\* a variant of the seat update without the interlock
SeatSideNoInterlock(status, applies, val, key, other) ==
  IF ~applies THEN status ELSE Put(status, key, val)

SeatSide(status, applies, val, key, other) ==
  IF ~applies THEN status
  ELSE IF val = StrV(T_on) THEN Put(Put(status, key, val), other, StrV(T_off))
  ELSE Put(status, key, val)

\* _update_vehicle_status_simulation(current_status, intent, params)
UpdateVehicleStatusSimulation(current_status, intent, params) ==
  IF intent = "control_hardware"
  THEN With([part \in {StrOrEmpty(Get(params, "part"))} |->
       With([detail \in {StrOrEmpty(Get(params, "location_detail"))} |->
       With([mapped \in {ActMap(StrOrEmpty(Get(params, "action")))} |->
       With([val \in {StrV(mapped)} |->
       IF mapped = <<>> THEN current_status
       ELSE IF part = T_sunroof THEN Put(current_status, "sunroof", val)
       ELSE IF part = T_charge_port THEN Put(current_status, "charge_port", val)
       ELSE IF part = T_trunk THEN Put(current_status, "trunk", val)
       ELSE IF part = T_frunk THEN Put(current_status, "frunk", val)
       ELSE IF part = T_door_lock THEN Put(current_status, "door_lock", val)
       ELSE IF part = T_window
       THEN (IF detail = T_all THEN PutAll(current_status, AllWindows, val)
             ELSE IF detail = T_driver THEN Put(current_status, "window_driver", val)
             ELSE IF detail = T_passenger THEN Put(current_status, "window_passenger", val)
             ELSE PutAll(current_status, {"window_driver", "window_passenger"}, val))
       ELSE IF part = T_seat_heater
       THEN With([a \in {SeatSide(current_status, detail \in {T_driver, T_front, <<>>}, val,
                          "seat_heater_driver", "seat_ventilation_driver")} |->
            With([b \in {SeatSide(a, detail \in {T_passenger, T_front, <<>>}, val,
                          "seat_heater_passenger", "seat_ventilation_passenger")} |->
            With([c \in {IF detail \in {T_rear, T_rear_left, T_all}
                 THEN Put(b, "seat_heater_rear_left", val) ELSE b} |->
            IF detail \in {T_rear, T_rear_right, T_all}
            THEN Put(c, "seat_heater_rear_right", val) ELSE c])])])
       ELSE IF part = T_seat_ventilation
       THEN With([a \in {SeatSide(current_status, detail \in {T_driver, T_front, <<>>}, val,
                          "seat_ventilation_driver", "seat_heater_driver")} |->
            SeatSide(a, detail \in {T_passenger, T_front, <<>>}, val,
                     "seat_ventilation_passenger", "seat_heater_passenger")])
       ELSE IF part = T_steering_wheel THEN Put(current_status, "steering_wheel_heat", val)
       ELSE IF part = T_light THEN Put(current_status, "light_head", val)
       ELSE IF part = T_wiper THEN Put(current_status, "wiper_front", val)
       ELSE current_status])])])])
  ELSE IF intent = "control_hvac"
  THEN With([act \in {StrOrEmpty(Get(params, "action"))} |->
       With([mode \in {StrOrEmpty(Get(params, "hvac_mode"))} |->
       With([temp \in {Get(params, "target_temp")} |->
       With([a \in {IF act = T_on THEN Put(current_status, "hvac_power", StrV(T_on))
            ELSE IF act = T_off THEN Put(current_status, "hvac_power", StrV(T_off))
            ELSE current_status} |->
       With([b \in {IF mode # <<>> THEN Put(a, "hvac_mode", StrV(mode)) ELSE a} |->
       IF ~Falsy(temp) THEN Put(b, "target_temp", temp) ELSE b])])])])])
  ELSE current_status

\* the merge without the turn counter
MergeStateSameTurn(state, patch) == Update(state, patch)

\* a variant of the merge that builds the new state on a new default state
MergeStateOnNewState(state, patch) ==
  [Update([state EXCEPT !.conversation_id = "conv_0"], patch) EXCEPT !.turn_index = @ + 1]

\* _merge_state(state, patch)
MergeState(state, patch) ==
  [Update(state, patch) EXCEPT !.turn_index = @ + 1]

\* _normalize_option_groups(option_groups)
NormalizeOptionGroups(og) ==
  IF IsNone(og) THEN EmptyDict
  ELSE IF IsDict(og) THEN (IF IsDict(Get(og.d, "value")) THEN og.d["value"].d ELSE og.d)
  ELSE IF IsList(og) THEN ItemsToDict(og.l, EmptyDict)
  ELSE EmptyDict

\* _normalize_temperature_value(v)
NormalizeTemperatureValue(v) ==
  IF ~IsStr(v) THEN v
  ELSE With([x \in {Lower(Strip(v.s))} |->
       IF x \in {T_iced, T_ice, T_aiseu} THEN StrV(T_ice)
       ELSE IF x \in {T_hot, T_hat} THEN StrV(T_hot)
       ELSE v])

\* _compact_spaces(s)
CompactSpaces(s) == JoinSpace(SplitSpaces(s, <<>>, <<>>))

\* _ITEM_NOISE_PATTERNS: each pattern as its alternatives, its leading \b, its trailing \b
ItemNoisePatterns ==
  << [alts |-> <<T_aiseu, T_iced, T_ice>>, lead |-> FALSE],
     [alts |-> <<T_hot, T_hat>>, lead |-> FALSE],
     [alts |-> <<T_small, T_medium, T_large>>, lead |-> FALSE],
     [alts |-> <<T_S, T_M, T_L>>, lead |-> TRUE],
     [alts |-> <<<<"k_keun","k_geo">>, T_keun>>, lead |-> FALSE],
     [alts |-> <<T_size>>, lead |-> FALSE],
     [alts |-> <<<<"k_du","k_gae">>, <<"k_du"," ","k_gae">>, <<"2","k_gae">>, <<"2"," ","k_gae">>,
                 T_dujan, T_du_jan, <<"2","k_jan">>, <<"2"," ","k_jan">>>>, lead |-> FALSE],
     [alts |-> <<<<"k_han","k_gae">>, <<"k_han"," ","k_gae">>, <<"1","k_gae">>, <<"1"," ","k_gae">>,
                 T_hanjan, T_han_jan, <<"1","k_jan">>, <<"1"," ","k_jan">>>>, lead |-> FALSE],
     [alts |-> <<<<"k_se","k_gae">>, <<"k_se"," ","k_gae">>, <<"3","k_gae">>, <<"3"," ","k_gae">>,
                 T_sejan, T_se_jan, <<"3","k_jan">>, <<"3"," ","k_jan">>>>, lead |-> FALSE],
     [alts |-> <<T_juseyo, T_jumun>>, lead |-> FALSE] >>

TEMP_WORDS == <<T_aiseu, T_iced, T_ice, T_hot, T_hat>>
SIZE_WORDS == <<T_small, T_medium, T_large, T_keun, T_S, T_M, T_L>>

\* the patterns applied one after the other
RECURSIVE SubAll(_, _)
SubAll(s, pats) ==
  IF pats = <<>> THEN s
  ELSE SubAll(ReSub(s, 1, Head(pats).alts, Head(pats).lead, TRUE), Tail(pats))

\* for w in words: s = re.sub(rf"\b{w}\b", " ", s)
RECURSIVE SubWords(_, _)
SubWords(s, words) ==
  IF words = <<>> THEN s ELSE SubWords(ReSub(s, 1, <<Head(words)>>, TRUE, TRUE), Tail(words))

\* _recover_item_name_candidates(item_name, option_groups)
RecoverItemNameCandidates(item_name, option_groups) ==
  IF ~IsStr(item_name) THEN <<>>
  ELSE With([raw \in {CompactSpaces(item_name.s)} |->
       With([s1 \in {CompactSpaces(SubAll(raw, ItemNoisePatterns))} |->
       With([c1 \in {IF s1 # <<>> /\ s1 # raw THEN <<raw, s1>> ELSE <<raw>>} |->
       With([a \in {IF ~IsNone(Get(option_groups, "temperature")) THEN SubWords(raw, TEMP_WORDS) ELSE raw} |->
       With([s2 \in {CompactSpaces(IF ~IsNone(Get(option_groups, "size")) THEN SubWords(a, SIZE_WORDS) ELSE a)} |->
       IF raw = <<>> THEN <<>>
       ELSE SelectSeq(IF s2 # <<>> /\ ~InList(s2, c1) THEN Append(c1, s2) ELSE c1,
                      LAMBDA x : Len(x) >= 2)])])])])])

\* the reply of an action; status is ui_hints/payload status, payload the facts
Reply(at, status) ==
  [action_type |-> at, status |-> status, expect_option_group |-> NoId, choices |-> NoneV,
   payload |-> EmptyDict, command |-> NoCommand]

\* _check_driving_safety_with_llm: the response_type; the oracle answers "execute",
\* "confirm_conflict" or "reject", or fails ("fail": any exception), which reads as execute
\* a variant of the safety check that refuses when the oracle gives no answer
CheckDrivingSafetyFailClosed(safety) == IF safety = "fail" THEN "reject" ELSE safety

CheckDrivingSafetyWithLlm(safety) == IF safety = "fail" THEN "execute" ELSE safety

\* [Patch] NLU Miss Correction: hvac_mode from the utterance when the slot has none
HvacModeCorrection(slots, user_message) ==
  With([user_msg_raw \in {SelectSeq(user_message, NotSpace)} |->
  IF ~IsNone(GetSlotValue(slots, "hvac_mode")) THEN slots
  ELSE IF Contains(user_msg_raw, T_eeokeon) THEN Put(slots, "hvac_mode", Slot(StrV(T_cool), 100))
  ELSE IF Contains(user_msg_raw, T_hiteo) THEN Put(slots, "hvac_mode", Slot(StrV(T_heat), 100))
  ELSE slots])

\* the target temperature injected for a heating or cooling mode without one
TempInjection(slots) ==
  With([mode_slot \in {Lower(StrOrEmpty(GetSlotValue(slots, "hvac_mode")))} |->
  IF ~Falsy(GetSlotValue(slots, "target_temp")) THEN slots
  ELSE IF mode_slot \in {T_heat, T_heater} THEN Put(slots, "target_temp", Slot(IntV(TempHeat), 100))
  ELSE IF mode_slot \in {T_cool, T_ac, T_cool_mode} THEN Put(slots, "target_temp", Slot(IntV(TempCool), 100))
  ELSE slots])

MaxResolvedLen == 50

\* the destination as the context resolver leaves it: nav is the oracle's answer,
\* [ok |-> FALSE] for an exception; the quote characters it strips are outside
\* the alphabet of the model's texts
DestinationResolution(slots, nav) ==
  With([clean_resolved \in {Strip(nav.text)} |->
  IF Strip(StrOrEmpty(GetSlotValue(slots, "destination"))) = <<>> \/ ~nav.ok THEN slots
  ELSE IF clean_resolved # <<>> /\ ~Contains(clean_resolved, T_FAIL) /\ Len(clean_resolved) < MaxResolvedLen
       THEN Put(slots, "destination", Slot(StrV(clean_resolved), 100))
       ELSE slots])

\* facts of a vehicle_action: the command's params, the steering wheel renamed
Facts(intent, params) ==
  IF intent = "control_hardware" /\ Get(params, "part") = StrV(T_steering_wheel)
  THEN Put(params, "part", StrV(T_steering_wheel \o <<"_">> \o T_heater))
  ELSE params

\* the execution of a vehicle command: the slots completed, the command built,
\* the status mirror advanced, the vehicle_action and the state it leaves
ExecuteVehicleCommand(intent, slots1, state, base, current_status, oracle) ==
  With([slots3 \in {IF intent = "control_hvac" THEN TempInjection(slots1)
       ELSE IF intent = "navigate_to" THEN DestinationResolution(slots1, oracle.nav)
       ELSE slots1} |->
  With([command_payload \in {BuildVehicleCommand(intent, slots3)} |->
  With([updated_status \in {UpdateVehicleStatusSimulation(current_status, intent, command_payload.params)} |->
  [action |-> [Reply("vehicle_action", "success") EXCEPT
                 !.command = command_payload, !.payload = Facts(intent, command_payload.params)],
   new_state |-> MergeState(state, Update(base, [vehicle_status |-> updated_status,
                                                 slots |-> slots3]))]])])])

\* validate_and_build_action, domain == "driving"
ValidateDriving(intent, slots0, meta, state, oracle) ==
  With([base \in {[current_domain |-> "driving", active_intent |-> intent]} |->
  With([current_status \in {Update(state.vehicle_status, meta.vehicle_status)} |->
  With([conflict_reason \in {CheckActionValidity(intent, slots0, current_status, meta.supported_features)} |->
  With([slots1 \in {IF intent = "control_hvac" THEN HvacModeCorrection(slots0, meta.user_message_preview)
       ELSE slots0} |->
  With([response_type \in {IF intent \in {"control_hvac", "control_hardware"}
       THEN CheckDrivingSafetyWithLlm(oracle.safety) ELSE "execute"} |->
  IF intent = "general_chat"
  THEN [action |-> Reply("answer", "general_chat"),
        new_state |-> MergeState(state, Update(base, [slots |-> slots0]))]
  ELSE IF conflict_reason = "feature_not_supported"
  THEN [action |-> Reply("answer", "unsupported"),
        new_state |-> MergeState(state, Update(base, [slots |-> slots0]))]
  ELSE IF conflict_reason = "unsafe_driving"
  THEN [action |-> Reply("answer", "rejected"),
        new_state |-> MergeState(state, Update(base, [slots |-> slots0]))]
  ELSE IF response_type = "confirm_conflict"
  THEN [action |-> Reply("answer", "conflict_confirm"),
        new_state |-> MergeState(state, Update(base, [debug_last_reason |-> "llm_safety_conflict",
                                                      slots |-> slots1]))]
  ELSE IF response_type = "reject"
  THEN [action |-> Reply("answer", "rejected"),
        new_state |-> MergeState(state, Update(base, [debug_last_reason |-> "llm_safety_reject",
                                                      slots |-> slots1]))]
  ELSE ExecuteVehicleCommand(intent, slots1, state, base, current_status, oracle)])])])])])

\* the first candidate name the catalog knows, NoItem when none
RECURSIVE FirstFound(_, _, _)
FirstFound(store_id, kiosk_type, cands) ==
  IF cands = <<>> THEN [item |-> NoItem, used_name |-> <<>>]
  ELSE With([it2 \in {GetItemByName(store_id, kiosk_type, StrV(Head(cands)))} |->
       IF it2.found THEN [item |-> it2, used_name |-> Head(cands)]
       ELSE FirstFound(store_id, kiosk_type, Tail(cands))])

\* the catalog item of the order: by the name as given, else by the first recovered
\* candidate the catalog knows; used_name is the candidate that was used
LookupItem(meta, item_name, option_groups) ==
  With([direct \in {GetItemByName(meta.store_id, meta.kiosk_type, item_name)} |->
  IF direct.found THEN [item |-> direct, used_name |-> <<>>]
  ELSE FirstFound(meta.store_id, meta.kiosk_type,
                  RecoverItemNameCandidates(item_name, option_groups))])

\* the clarification for a missing required option group and the state it leaves
AskOptionGroup(slots, state, item, option_groups, missing_group) ==
  With([choices \in {IF DOMAIN item.option_groups # {} /\ missing_group \in DOMAIN item.option_groups
       THEN ListV(item.option_groups[missing_group]) ELSE NoneV} |->
  [action |-> [Reply("ask_option_group", NoId) EXCEPT
                 !.expect_option_group = missing_group, !.choices = choices],
   new_state |-> MergeState(state,
     [current_domain |-> "kiosk", active_intent |-> "add_item",
      slots |-> [item_name |-> Get(slots, "item_name"),
                 quantity |-> Get(slots, "quantity"),
                 option_groups |-> Slot(DictV(option_groups), 90),
                 notes |-> Get(slots, "notes")],
      pending_option_group |-> missing_group, pending_option_group_choices |-> choices,
      last_bot_action |-> "ask_option_group",
      debug_last_reason |-> "missing_option_group:" \o missing_group])]])

\* a variant of the answer to a lookup miss that starts the order over
MenuNotFoundReset(state) ==
  [action |-> Reply("answer", NoId),
   new_state |-> MergeState(state,
     [slots |-> EmptyDict, active_intent |-> NoId, pending_option_group |-> NoId,
      pending_option_group_choices |-> NoneV, debug_last_reason |-> "menu_not_found"])]

\* the answer to a lookup miss: the name and every recovered candidate are unknown
\* to the catalog; the state keeps all but the reason
MenuNotFound(state) ==
  [action |-> Reply("answer", NoId),
   new_state |-> MergeState(state, [debug_last_reason |-> "menu_not_found"])]

\* validate_and_build_action, domain == "kiosk" and intent == "add_item"
ValidateAddItem(slots, meta, state) ==
  With([item_name \in {GetSlotValue(slots, "item_name")} |->
  With([og0 \in {NormalizeOptionGroups(GetSlotValue(slots, "option_groups"))} |->
  With([option_groups \in {IF "temperature" \in DOMAIN og0
       THEN Put(og0, "temperature", NormalizeTemperatureValue(og0["temperature"]))
       ELSE og0} |->
  IF meta.store_id = NoId \/ meta.kiosk_type = NoId \/ Falsy(item_name)
  THEN [action |-> Reply("answer", NoId),
        new_state |-> MergeState(state, [debug_last_reason |-> "missing_meta_or_item_name"])]
  ELSE
  With([look \in {LookupItem(meta, item_name, option_groups)} |->
  IF ~look.item.found
  THEN MenuNotFound(state)
  ELSE
  With([required_groups \in {GetRequiredOptionGroups(meta,
         IF look.used_name # <<>> THEN Put(slots, "item_name", Slot(StrV(look.used_name), 60))
         ELSE slots)} |->
  With([missing_group \in {FindMissingRequiredOptionGroup(required_groups, option_groups)} |->
  IF missing_group # NoId
  THEN AskOptionGroup(slots, state, look.item, option_groups, missing_group)
  ELSE [action |-> [Reply("add_to_cart", NoId) EXCEPT
                      !.payload = [name |-> StrV(look.item.name),
                                   quantity |-> IF Falsy(GetSlotValue(slots, "quantity")) THEN IntV(1)
                                                ELSE GetSlotValue(slots, "quantity"),
                                   option_groups |-> DictV(option_groups)]],
        new_state |-> MergeState(state,
          [current_domain |-> "kiosk", active_intent |-> NoId, slots |-> EmptyDict,
           last_bot_action |-> "add_to_cart", debug_last_reason |-> "added_to_cart",
           pending_option_group |-> NoId, pending_option_group_choices |-> NoneV])]])])])])])])

\* validate_and_build_action(domain, intent, slots, meta, state): [action, new_state];
\* oracle holds what the external models answer during the call
ValidateAndBuildAction(domain, intent, slots, meta, state, oracle) ==
  IF domain = "driving" THEN ValidateDriving(intent, slots, meta, state, oracle)
  ELSE IF domain = "kiosk" /\ intent = "add_item" THEN ValidateAddItem(slots, meta, state)
  ELSE IF domain = "education"
  THEN [action |-> Reply("answer", NoId),
        new_state |-> MergeState(state,
          [current_domain |-> "education", active_intent |-> intent, slots |-> slots,
           last_bot_action |-> "answer", debug_last_reason |-> "edu:llm_generate:" \o intent])]
  ELSE [action |-> Reply("answer", NoId),
        new_state |-> MergeState(state, [debug_last_reason |-> "action:planned", slots |-> slots])]

----------------------------------------------------------------------------
(* session/session_manager.py *)

\* _new_state(); the keys the validator adds later are there from the start with
\* the value a .get() reads for a missing key
NewState ==
  [conversation_id |-> "conv_1000", turn_index |-> 0, current_domain |-> NoId, active_intent |-> NoId, slots |-> EmptyDict,
   last_bot_action |-> NoId, pending_option_group |-> NoId,
   pending_option_group_choices |-> NoneV, debug_last_reason |-> NoId,
   vehicle_status |-> EmptyDict]

\* _key(platform_id, user_id)
Key(platform_id, user_id) == "chatbot:session:" \o platform_id \o ":" \o user_id

\* get(platform_id, user_id): the stored state, a new one for a key without entry
SessionsGet(st, k) == IF k \in DOMAIN st THEN st[k] ELSE NewState

\* a variant of set(platform_id, user_id, state) that merges the slots of the
\* document it replaces into the new one
SessionsSetMerging(st, k, state) ==
  Put(st, k, [state EXCEPT !.slots = Update(SessionsGet(st, k).slots, state.slots)])

\* set(platform_id, user_id, state)
SessionsSet(st, k, state) == Put(st, k, state)

----------------------------------------------------------------------------
(* api/chat.py: one conversation identity, its turns processed one at a time *)

MaxTurns == 2

UserKey == Key("web", "u1")

\* the request meta the validator reads
Meta(store_id, kiosk_type, vehicle_status, supported_features, user_message) ==
  [store_id |-> store_id, kiosk_type |-> kiosk_type, vehicle_status |-> vehicle_status,
   supported_features |-> supported_features, user_message_preview |-> user_message]

\* the external models of a turn: the follow-up judge, the safety brain, the
\* destination resolver
Oracle(llm, safety, nav) == [llm |-> llm, safety |-> safety, nav |-> nav]

NavFail == [ok |-> FALSE, text |-> <<>>]
NavSays(text) == [ok |-> TRUE, text |-> text]

\* the slot dict with the slots that were extracted (a None stands for no slot)
SlotsOf(d) == [k \in {x \in DOMAIN d : ~IsNone(d[x])} |-> d[k]]

NoReq ==
  [user_message |-> <<>>, meta |-> Meta(NoId, NoId, EmptyDict, NoneV, <<>>),
   nlu |-> [domain |-> NoId, intent |-> NoId, slots |-> EmptyDict],
   oracle |-> Oracle("none", "fail", NavFail)]

NoNlu == [domain |-> NoId, intent |-> NoId, slots |-> EmptyDict, slots_in |-> EmptyDict]

\* the session still takes requests: the model follows MaxTurns turns of it
Running == SessionsGet(store, UserKey).turn_index < MaxTurns

\* chat(req): load the state, normalize the NLU result, validate, save the new state
Turn(user_message, meta0, nlu, oracle) ==
  \E state \in {SessionsGet(store, UserKey)} :
  \E n2 \in {ApplySessionRules(state, nlu, user_message, oracle.llm)} :
  \E meta_dict \in {[meta0 EXCEPT !.user_message_preview = user_message]} :
  \E r \in {ValidateAndBuildAction(n2.domain, n2.intent, n2.slots, meta_dict, state, oracle)} :
    /\ loaded' = state
    /\ req' = [user_message |-> user_message, meta |-> meta_dict, nlu |-> nlu, oracle |-> oracle]
    /\ nlu2' = n2
    /\ action' = r.action
    /\ store' = SessionsSet(store, UserKey, r.new_state)
    /\ UNCHANGED rvars

\* -- kiosk requests --
T_beginner == <<"b","e","g","i","n","n","e","r">>
T_advanced == <<"a","d","v","a","n","c","e","d">>
T_deotsem == <<"k_deot","k_sem">>
T_deotsem_q == <<"k_deot","k_sem","?">>
T_geugeoyo_q == <<"k_geu","k_geo","k_yo","?">>

KioskMessages == {T_hot, T_iced, T_L, T_ok, T_tea_juseyo}
KioskItemNames == {NoneV, Slot(StrV(T_latte), 90), Slot(StrV(T_tea), 90),
                   Slot(StrV(T_iced_latte), 90), Slot(StrV(T_pie), 90)}
OgItem(g, v) == [group |-> g, value |-> v]
KioskOptionGroups ==
  {NoneV,
   Slot(ListV(<<OgItem("temperature", StrV(T_hot))>>), 90),
   Slot(ListV(<<OgItem("temperature", NoneV)>>), 90)}

\* the NLU result of a kiosk request
KioskNlu(intent, item, og) ==
  [domain |-> "kiosk", intent |-> intent,
   slots |-> SlotsOf([item_name |-> item, option_groups |-> og])]

KioskTurn(m, sid, intent, item, og) ==
  /\ Running
  /\ Turn(m, Meta(sid, KioskType, EmptyDict, NoneV, m), KioskNlu(intent, item, og),
          Oracle("none", "fail", NavFail))
  /\ UNCHANGED history

\* a kiosk terminal's request: an order or an answer to a clarification; a request
\* the NLU reads as another intent; a request without the store's meta
TurnKiosk ==
  \/ \E m \in KioskMessages, item \in KioskItemNames, og \in KioskOptionGroups :
       KioskTurn(m, StoreId, "add_item", item, og)
  \/ \E m \in {T_ok}, item \in {NoneV, Slot(StrV(T_tea), 90)} :
       KioskTurn(m, StoreId, "ask_store_info", item, NoneV)
  \/ \E m \in {T_hot}, item \in {Slot(StrV(T_tea), 90)} :
       KioskTurn(m, NoId, "add_item", item, NoneV)
  \/ \E m \in {T_ok}, og \in {Slot(ListV(<<OgItem("temperature", StrV(T_warm))>>), 90)} :
       KioskTurn(m, StoreId, "add_item", NoneV, og)
  \/ \E m \in {T_tea_juseyo}, og \in {Slot(ListV(<<OgItem("size", StrV(T_L))>>), 90)} :
       KioskTurn(m, StoreId, "add_item", Slot(StrV(T_tea), 90), og)

\* -- education requests --
EduMessages == {T_ok, T_deotsem_q, T_geugeoyo_q}
EduLevels == {NoneV, Slot(StrV(T_beginner), 90), Slot(StrV(T_advanced), 90), Slot(NoneV, 0)}
EduTopics == {NoneV, Slot(StrV(T_deotsem), 90), Slot(StrV(T_cake), 90), Slot(NoneV, 0)}
EduQuestions == {NoneV, Slot(StrV(T_ok), 90)}
FollowupAnswers == {"none", "yes", "no"}

\* the NLU result of an education request
EduNlu(level, topic, question) ==
  [domain |-> "education", intent |-> "ask_question",
   slots |-> SlotsOf([level |-> level, topic |-> topic, question |-> question])]

EduTurn(m, level, topic, question, llm) ==
  /\ Running
  /\ Turn(m, Meta(NoId, NoId, EmptyDict, NoneV, m), EduNlu(level, topic, question),
          Oracle(llm, "fail", NavFail))
  /\ UNCHANGED history

\* a tutoring request: a question with the preferences and the context the NLU reads
TurnEdu ==
  \E m \in EduMessages, level \in EduLevels, topic \in EduTopics, question \in EduQuestions,
     llm \in FollowupAnswers :
    EduTurn(m, level, topic, question, llm)

\* -- driving requests --
T_there == <<"t","h","e","r","e">>
T_cafe == <<"c","a","f","e">>
T_eeokeon_kyeo == <<"k_e","k_eo","k_keon"," ","k_kyeo">>

\* the vehicle status a head unit reports, and a head unit that reports none
ReportedStatus ==
  [sunroof |-> StrV(T_closed), hvac_power |-> StrV(T_off), seat_heater_driver |-> StrV(T_off)]
VehicleStatuses == {EmptyDict, ReportedStatus}

\* meta.supported_features: absent, an empty list, the features of a trim
SupportedFeatures == {NoneV, ListV(<<>>), ListV(<<StrV(T_sunroof), StrV(T_hvac)>>)}

SafetyAnswers == {"fail", "execute", "confirm_conflict", "reject"}

HardwareCommands ==
  {<<T_sunroof, T_close>>, <<T_sunroof, T_open>>, <<T_seat_heater, T_on>>, <<T_window, T_close>>,
   <<T_seat_ventilation, T_on>>}

\* [action, hvac_mode, utterance] of a climate request; <<>> for a slot the NLU left out
HvacCommands ==
  {<<T_on, <<>>, T_ok>>, <<T_off, <<>>, T_ok>>, <<<<>>, <<>>, T_eeokeon_kyeo>>,
   <<T_on, T_heat, T_ok>>}

Destinations == {<<>>, T_home, T_there}
NavAnswers == {NavFail, NavSays(T_FAIL), NavSays(T_home)}

\* a slot of the NLU result: the text with its confidence, no slot for an empty text
TextSlot(text) == IF text = <<>> THEN NoneV ELSE Slot(StrV(text), 90)

\* the NLU result of a driving request
DrivingNlu(intent, slots) == [domain |-> "driving", intent |-> intent, slots |-> SlotsOf(slots)]

DrivingTurn(m, intent, slots, status, features, safety, nav) ==
  /\ Running
  /\ Turn(m, Meta(NoId, NoId, status, features, m), DrivingNlu(intent, slots),
          Oracle("none", safety, nav))
  /\ UNCHANGED history

\* a head unit's request: a hardware command, a climate command, a destination,
\* a place search, small talk
TurnDriving ==
  \/ \E c \in HardwareCommands, status \in VehicleStatuses, features \in SupportedFeatures,
        safety \in SafetyAnswers :
       DrivingTurn(T_ok, "control_hardware",
                   [target_part |-> TextSlot(c[1]), action |-> TextSlot(c[2])],
                   status, features, safety, NavFail)
  \/ \E c \in HvacCommands, status \in VehicleStatuses, features \in SupportedFeatures \ {NoneV},
        safety \in {"execute", "reject"} :
       DrivingTurn(c[3], "control_hvac",
                   [action |-> TextSlot(c[1]), hvac_mode |-> TextSlot(c[2])],
                   status, features, safety, NavFail)
  \/ \E dest \in Destinations, nav \in NavAnswers :
       DrivingTurn(T_ok, "navigate_to", [destination |-> TextSlot(dest)],
                   EmptyDict, NoneV, "fail", nav)
  \/ \E poi \in {<<>>, T_cafe}, intent \in {"find_poi", "general_chat", "fallback"} :
       DrivingTurn(T_ok, intent, [poi_type |-> TextSlot(poi)], EmptyDict, NoneV, "fail", NavFail)

\* -- requests in flight --
\* the requests the service handles at the same time, each in a worker thread
RequestIds == {"r1", "r2"}

\* a worker's place in chat(req): no request, or one that ended without saving;
\* the state loaded by sessions.get; the new state saved by sessions.set
Idle == [pc |-> "idle", state |-> NewState, new_state |-> NewState]

\* the outcome of the last request that ended: status none before any, ok for a
\* ChatResponse, internal_error for the HTTP 500 of the handler, cancelled for a
\* request dropped before the save; stage is the handler's stage when it ended;
\* nlu_ok and reply_ok tell whether the NLU and the reply generation answered,
\* catalog whether the catalog was called and answered ("unused", "ok", "error")
Resp(status, stage, by, faults, catalog) ==
  [status |-> status, stage |-> stage, by |-> by,
   nlu_ok |-> faults.nlu_ok, reply_ok |-> faults.reply_ok, catalog |-> catalog]

AllOk == [nlu_ok |-> TRUE, reply_ok |-> TRUE, catalog_ok |-> TRUE]
NoResp == Resp("none", "start", NoId, AllOk, "unused")

\* what the collaborators do during a request
Faults == [nlu_ok : BOOLEAN, reply_ok : BOOLEAN, catalog_ok : BOOLEAN]

\* _minimal_fallback_nlu(req): the NLU result when the NLU model is unavailable
MinimalFallbackNlu(mode, user_message) ==
  IF Lower(mode) \in {<<"e","d","u">>, <<"e","d","u","c","a","t","i","o","n">>}
  THEN [domain |-> "education", intent |-> "ask_knowledge",
        slots |-> [topic |-> Slot(StrV(Strip(user_message)), 10)]]
  ELSE [domain |-> "kiosk", intent |-> "fallback", slots |-> EmptyDict]

\* nlu_with_llm(req, state, candidates): the model's result, the fallback without it
NluWithLlm(nlu_ok, nlu, mode, user_message) ==
  IF nlu_ok THEN nlu ELSE MinimalFallbackNlu(mode, user_message)

\* conversation_id of _new_state(): conv_ and the milliseconds of the clock
ConversationIds == {"conv_1000", "conv_2000"}

\* _new_state() when the clock makes the conversation_id cid
NewStateAt(cid) == [NewState EXCEPT !.conversation_id = cid]

\* the redis content after get(platform_id, user_id): a key without document gets
\* the new state written
StoreAfterGet(st, k, created) == IF k \in DOMAIN st THEN st ELSE Put(st, k, created)

\* the validator looks the ordered item up in the catalog
CatalogCalled(n2, meta) ==
  /\ n2.domain = "kiosk" /\ n2.intent = "add_item"
  /\ meta.store_id # NoId /\ meta.kiosk_type # NoId
  /\ ~Falsy(GetSlotValue(n2.slots, "item_name"))

\* the action carries the llm_task edu_answer_generation, which chat executes
ReplyGenerated(n2) == n2.domain = "education"

\* the requests clients send: [mode, user_message, meta, nlu, oracle]
ChatRequest(mode, m, meta, nlu, oracle) ==
  [mode |-> mode, user_message |-> m, meta |-> meta, nlu |-> nlu, oracle |-> oracle]

M_kiosk == <<"k","i","o","s","k">>
M_edu == <<"e","d","u">>
M_web == <<"w","e","b">>

ChatRequests ==
  {ChatRequest(M_kiosk, T_hot, Meta(StoreId, KioskType, EmptyDict, NoneV, T_hot),
               KioskNlu("add_item", Slot(StrV(T_tea), 90), NoneV),
               Oracle("none", "fail", NavFail)),
   ChatRequest(M_edu, T_deotsem_q, Meta(NoId, NoId, EmptyDict, NoneV, T_deotsem_q),
               EduNlu(Slot(StrV(T_advanced), 90), Slot(StrV(T_deotsem), 90), NoneV),
               Oracle("none", "fail", NavFail)),
   ChatRequest(M_web, T_ok, Meta(NoId, NoId, EmptyDict, NoneV, T_ok),
               DrivingNlu("control_hardware",
                          [target_part |-> TextSlot(T_window), action |-> TextSlot(T_close)]),
               Oracle("none", "fail", NavFail))}

\* chat(req), sessions.get: the document of the conversation is read and parsed;
\* a document that does not parse raises, which the handler answers with HTTP 500;
\* a key without document gets the new state written, with the conversation_id
\* cid of the clock
Load(p, cid) ==
  /\ inflight[p].pc # "loaded"
  /\ Running \/ unparsable
  /\ IF unparsable
     THEN /\ resp' = Resp("internal_error", "state_loaded", p, AllOk, "unused")
          /\ inflight' = [inflight EXCEPT ![p] = Idle]
          /\ UNCHANGED <<store, unparsable>>
     ELSE /\ store' = StoreAfterGet(store, UserKey, NewStateAt(cid))
          /\ inflight' = [inflight EXCEPT ![p] =
                            [pc |-> "loaded", state |-> store'[UserKey],
                             new_state |-> store'[UserKey]]]
          /\ UNCHANGED <<unparsable, resp>>
  /\ UNCHANGED <<loaded, req, nlu2, action, probe, history>>

\* chat(req) from nlu_with_llm to sessions.set, on the state the request loaded:
\* an exception of the catalog or of the reply generation ends the request with
\* HTTP 500 and nothing saved, else the new state overwrites the document
Process(p, t, f) ==
  /\ inflight[p].pc = "loaded"
  /\ \E state \in {inflight[p].state} :
     \E nlu \in {NluWithLlm(f.nlu_ok, t.nlu, t.mode, t.user_message)} :
     \E n2 \in {ApplySessionRules(state, nlu, t.user_message, t.oracle.llm)} :
     \E meta_dict \in {[t.meta EXCEPT !.user_message_preview = t.user_message]} :
     \E catalog \in {IF ~CatalogCalled(n2, meta_dict) THEN "unused"
                     ELSE IF f.catalog_ok THEN "ok" ELSE "error"} :
       IF catalog = "error"
       THEN /\ resp' = Resp("internal_error", "validation_result", p, f, catalog)
            /\ inflight' = [inflight EXCEPT ![p] = Idle]
            /\ UNCHANGED <<store, loaded, req, nlu2, action, unparsable, probe, history>>
       ELSE IF ReplyGenerated(n2) /\ ~f.reply_ok
       THEN /\ resp' = Resp("internal_error", "llm_task_execute", p, f, catalog)
            /\ inflight' = [inflight EXCEPT ![p] = Idle]
            /\ UNCHANGED <<store, loaded, req, nlu2, action, unparsable, probe, history>>
       ELSE \E r \in {ValidateAndBuildAction(n2.domain, n2.intent, n2.slots, meta_dict,
                                             state, t.oracle)} :
            /\ loaded' = state
            /\ req' = [user_message |-> t.user_message, meta |-> meta_dict, nlu |-> nlu,
                       oracle |-> t.oracle]
            /\ nlu2' = n2
            /\ action' = r.action
            /\ store' = SessionsSet(store, UserKey, r.new_state)
            /\ unparsable' = FALSE
            /\ inflight' = [inflight EXCEPT ![p] =
                              [pc |-> "done", state |-> state, new_state |-> r.new_state]]
            /\ resp' = Resp("ok", "response_out", p, f, catalog)
            /\ UNCHANGED <<probe, history>>

\* a request that ends between sessions.get and sessions.set: its worker is gone
Abandon(p) ==
  /\ inflight[p].pc = "loaded"
  /\ inflight' = [inflight EXCEPT ![p] = Idle]
  /\ resp' = Resp("cancelled", "state_loaded", p, AllOk, "unused")
  /\ UNCHANGED <<store, loaded, req, nlu2, action, unparsable, probe, history>>

\* the document of the conversation is replaced in redis by one that is not JSON
Corrupt ==
  /\ ~unparsable
  /\ UserKey \in DOMAIN store
  /\ unparsable' = TRUE
  /\ UNCHANGED <<store, loaded, req, nlu2, action, inflight, resp, probe, history>>

LoadStep == \E p \in RequestIds, cid \in ConversationIds : Load(p, cid)
ProcessStep == \E p \in RequestIds, t \in ChatRequests, f \in Faults : Process(p, t, f)
AbandonStep == \E p \in RequestIds : Abandon(p)

\* the steps of concurrent requests of one conversation
NextRequests == LoadStep \/ ProcessStep \/ AbandonStep \/ Corrupt

\* -- calls of is_followup --
T_long == <<"o","n","e"," ","p","l","u","s"," ","t","w","o">>
T_false == <<"f","a","l","s","e">>
T_high == <<"h","i","g","h">>

\* the answers of the continuation oracle: none, an exception, a content that is
\* not JSON, the verdicts in the shape asked for, and contents of another shape
LlmResponses ==
  {LlmOff, LlmRaises, LlmNotJson,
   LlmSays(DictV([is_followup |-> BoolV(TRUE), confidence |-> IntV(90)])),
   LlmSays(DictV([is_followup |-> BoolV(FALSE), confidence |-> IntV(90)])),
   LlmSays(DictV([is_followup |-> BoolV(TRUE), confidence |-> StrV(T_high)])),
   LlmSays(DictV([is_followup |-> StrV(T_false), confidence |-> IntV(90)])),
   LlmSays(DictV([is_followup |-> NoneV, confidence |-> IntV(90)])),
   LlmSays(DictV(EmptyDict)),
   LlmSays(ListV(<<>>))}

\* utterances by the signals of the heuristic: short or long, with or without a
\* continuation prefix, a referential word, a question mark or ending
FollowupMessages ==
  {T_ok, T_long, T_geureom, T_geureom \o <<"?">>, T_geugeo, T_geugeoyo_q,
   T_geureomyo, T_geureom \o <<" ">> \o T_long, T_geureom \o <<" ">> \o T_long \o <<"?">>,
   T_long \o <<" ">> \o T_igeo, T_ok \o <<" ">> \o T_geugeo,
   T_geugeo \o <<" ">> \o T_long, T_geugeo \o <<" ">> \o T_long \o <<"?">>,
   T_geureom \o <<" ">> \o T_deotsem \o <<"k_i","k_ya">>}

\* the values of last_bot_action the heuristic tells apart
LastActions == {NoId, "answer", "add_to_cart", "ask_slot", "ask_option_group"}

NoProbe ==
  [fn |-> "none", user_message |-> <<>>, last_bot_action |-> NoId, response |-> LlmOff,
   llm |-> "none", score |-> 0, verdict |-> FALSE]

\* is_followup(user_message, state) on a state with the given last action, while
\* the continuation oracle does r
Classify(m, last, r) ==
  /\ probe' = [fn |-> "is_followup", user_message |-> m, last_bot_action |-> last,
               response |-> r, llm |-> LlmIsFollowup(r),
               score |-> HeuristicFollowupScore(m, [NewState EXCEPT !.last_bot_action = last]),
               verdict |-> IsFollowup(m, [NewState EXCEPT !.last_bot_action = last],
                                      LlmIsFollowup(r))]
  /\ UNCHANGED <<store, loaded, req, nlu2, action, inflight, unparsable, resp, history>>

NextFollowup ==
  \E m \in FollowupMessages, last \in LastActions, r \in LlmResponses : Classify(m, last, r)

\* -- the session store called on its own: get and set of a few identities --
MaxClock == 3

\* int(time.time()*1000) at clock tick n, as text
ClockName(n) == "100" \o DigitSeq[n + 1]

RECURSIVE Concat(_)
Concat(text) == IF text = <<>> THEN "" ELSE Head(text) \o Concat(Tail(text))

\* _key(platform_id, user_id) at clock tick now: an identity without user id gets
\* the key of an anonymous user named after the time of the call
KeyAt(platform_id, user_id, now) ==
  With([pid \in {Strip(IF platform_id = <<>> THEN <<"d","e","f","a","u","l","t">> ELSE platform_id)} |->
  With([uid \in {Strip(user_id)} |->
  Key(Concat(pid), IF uid = <<>> THEN "anon_" \o ClockName(now) ELSE Concat(uid))])])

PlatformIds == {<<"w","e","b">>}
UserIds == {<<"u","1">>, <<>>, <<" ">>}
WrittenStates == {[NewState EXCEPT !.turn_index = 1], [NewState EXCEPT !.turn_index = 2]}

\* the clock of the last call, and the states set has written, by identity
ClockNow == IF probe.fn \in {"get", "set"} THEN probe.now ELSE 1
Written == IF probe.fn \in {"get", "set"} THEN probe.written ELSE <<>>

\* set(platform_id, user_id, state) at clock tick now
StoreSet(platform_id, user_id, state, now) ==
  /\ now \in {ClockNow, ClockNow + 1} /\ now <= MaxClock
  /\ store' = SessionsSet(store, KeyAt(platform_id, user_id, now), state)
  /\ probe' = [fn |-> "set", platform_id |-> platform_id, user_id |-> user_id, now |-> now,
               returned |-> state,
               written |-> [id \in DOMAIN Written \cup {<<platform_id, user_id>>} |->
                              IF id = <<platform_id, user_id>> THEN state ELSE Written[id]]]
  /\ UNCHANGED <<loaded, req, nlu2, action, inflight, unparsable, resp, history>>

\* get(platform_id, user_id) at clock tick now
StoreGet(platform_id, user_id, now) ==
  /\ now \in {ClockNow, ClockNow + 1} /\ now <= MaxClock
  /\ store' = StoreAfterGet(store, KeyAt(platform_id, user_id, now), NewState)
  /\ probe' = [fn |-> "get", platform_id |-> platform_id, user_id |-> user_id, now |-> now,
               returned |-> store'[KeyAt(platform_id, user_id, now)],
               written |-> Written]
  /\ UNCHANGED <<loaded, req, nlu2, action, inflight, unparsable, resp, history>>

StoreSetStep ==
  \E platform_id \in PlatformIds, user_id \in UserIds, state \in WrittenStates, now \in 1..MaxClock :
    StoreSet(platform_id, user_id, state, now)

StoreGetStep ==
  \E platform_id \in PlatformIds, user_id \in UserIds, now \in 1..MaxClock :
    StoreGet(platform_id, user_id, now)

NextStore == StoreSetStep \/ StoreGetStep

\* -- a clarification chain: an order and the answers to what the kiosk asks --
MaxChainTurns == 3

ChainTurn(m, item, og) ==
  /\ SessionsGet(store, UserKey).turn_index < MaxChainTurns
  /\ Turn(m, Meta(StoreId, KioskType, EmptyDict, NoneV, m), KioskNlu("add_item", item, og),
          Oracle("none", "fail", NavFail))
  /\ UNCHANGED history

NextChain ==
  \E m \in {T_hot, T_iced, T_L, T_ok}, item \in {NoneV, Slot(StrV(T_latte), 90)},
     og \in {NoneV, Slot(ListV(<<OgItem("size", StrV(T_M))>>), 90)} :
    ChainTurn(m, item, og)

\* -- a sequence of seat commands, the status mirror left to the simulation --
MaxSeatTurns == 3

SeatParts == {T_seat_heater, T_seat_ventilation}
SeatLocations == {<<>>, T_driver, T_passenger}

\* a seat command executed: every feature supported, no status in meta, the
\* safety oracle out of reach
SeatTurn(part, act, loc) ==
  /\ SessionsGet(store, UserKey).turn_index < MaxSeatTurns
  /\ Turn(T_ok, Meta(NoId, NoId, EmptyDict, NoneV, T_ok),
          DrivingNlu("control_hardware",
                     [target_part |-> TextSlot(part), action |-> TextSlot(act),
                      location_detail |-> TextSlot(loc)]),
          Oracle("none", "fail", NavFail))
  /\ UNCHANGED history

NextSeats == \E part \in SeatParts, act \in {T_on, T_off}, loc \in SeatLocations : SeatTurn(part, act, loc)

\* -- build_vehicle_command called on its own for a climate request --
T_up == <<"u","p">>
T_dry == <<"d","r","y">>
T_Heat_sp == <<" ","H","e","a","t">>
T_20 == <<"2","0">>
T_sp40 == <<" ","4","0"," ">>
T_m5 == <<"-","5">>
T_abc == <<"a","b","c">>

HvacActions == {NoneV, StrV(T_on), StrV(T_off), StrV(T_up)}
HvacModes == {NoneV, StrV(T_heat), StrV(T_Heat_sp), StrV(T_cool), StrV(T_auto), StrV(T_dry)}
HvacTemps ==
  {NoneV, IntV(0 - 5), IntV(0), IntV(15), IntV(16), IntV(24), IntV(32), IntV(33),
   StrV(T_20), StrV(T_sp40), StrV(T_m5), StrV(T_abc), StrV(<<>>), BoolV(TRUE), ListV(<<>>)}

\* a slot as the NLU result carries it, or its bare value
SlotForm(v, wrapped) == IF IsNone(v) THEN NoneV ELSE IF wrapped THEN Slot(v, 90) ELSE v

BuildHvac(a, m, t, wrapped) ==
  /\ probe' = [fn |-> "build_vehicle_command", act |-> a, mode |-> m, temp |-> t,
               command |-> BuildVehicleCommand("control_hvac",
                             SlotsOf([action |-> SlotForm(a, wrapped), hvac_mode |-> SlotForm(m, wrapped),
                                      target_temp |-> SlotForm(t, wrapped)]))]
  /\ UNCHANGED <<store, loaded, req, nlu2, action, inflight, unparsable, resp, history>>

NextHvac ==
  \E a \in HvacActions, m \in HvacModes, t \in HvacTemps, wrapped \in BOOLEAN : BuildHvac(a, m, t, wrapped)

\* -- the history of the conversation --
\* history is state["history"] of the conversation's document.  It enters no
\* decision of a turn (the validator hands its last entries to the external
\* models as text), so it is followed on its own, in the turns of SpecHistory.
HistoryLimit == 30
MaxHistoryTurns == 18

Entry(role, content) == [role |-> role, content |-> content]

\* a variant of the trimming that keeps the oldest entries
FirstEntries(h) == IF Len(h) > HistoryLimit THEN SubSeq(h, 1, HistoryLimit) ELSE h

\* history[-30:]
LastEntries(h) == IF Len(h) > HistoryLimit THEN SubSeq(h, Len(h) - HistoryLimit + 1, Len(h)) ELSE h

\* chat: the user message is appended to state["history"]
AppendUser(h, user_message) == LastEntries(Append(h, Entry("user", user_message)))

\* chat: the reply text, if any, is appended to new_state["history"], which is
\* the list of state["history"] (new_state is a shallow copy of state)
AppendAssistant(h, reply_text) ==
  IF reply_text = <<>> THEN h ELSE LastEntries(Append(h, Entry("assistant", reply_text)))

T_sure == <<"s","u","r","e">>

\* a turn of a long conversation: a request the validator answers by its generic
\* answer, with the reply text the renderer makes of it, an empty one included
HistoryTurn(m, reply_text) ==
  /\ SessionsGet(store, UserKey).turn_index < MaxHistoryTurns
  /\ Turn(m, Meta(StoreId, KioskType, EmptyDict, NoneV, m), KioskNlu("ask_store_info", NoneV, NoneV),
          Oracle("none", "fail", NavFail))
  /\ history' = AppendAssistant(AppendUser(history, m), reply_text)

NextHistory == \E m \in {T_ok}, reply_text \in {<<>>, T_sure} : HistoryTurn(m, reply_text)

Init ==
  /\ store = EmptyDict
  /\ loaded = NewState
  /\ req = NoReq
  /\ nlu2 = NoNlu
  /\ action = Reply("none", NoId)
  /\ inflight = [p \in RequestIds |-> Idle]
  /\ unparsable = FALSE
  /\ resp = NoResp
  /\ probe = NoProbe
  /\ history = <<>>

\* every request the service takes
Next == TurnKiosk \/ TurnEdu \/ TurnDriving

Spec == Init /\ [][Next]_vars

\* the service as one kind of client sees it
SpecKiosk == Init /\ [][TurnKiosk]_vars
SpecEdu == Init /\ [][TurnEdu]_vars
SpecDriving == Init /\ [][TurnDriving]_vars

\* the service as concurrent requests of one conversation see it
SpecRequests == Init /\ [][NextRequests]_vars

\* the service in a long conversation, its history followed
SpecHistory == Init /\ [][NextHistory]_vars

\* the session store under get and set
SpecStore == Init /\ [][NextStore]_vars

\* the kiosk in a clarification chain
SpecChain == Init /\ [][NextChain]_vars

\* the vehicle in a sequence of seat commands
SpecSeats == Init /\ [][NextSeats]_vars

\* the command builder called on its own
SpecHvac == Init /\ [][NextHvac]_vars

\* the follow-up classifier called on its own
SpecFollowup == Init /\ [][NextFollowup]_vars

----------------------------------------------------------------------------
(* Properties *)

\* the state the store holds for the conversation
Saved == SessionsGet(store, UserKey)

\* a turn has completed
TurnDone == req # NoReq

\* the utterance is one of the choices, blanks and case apart
AnswersChoice(m, choices) ==
  /\ IsList(choices)
  /\ \E i \in 1..Len(choices.l) :
       /\ IsStr(choices.l[i])
       /\ Lower(RemoveSpaces(m)) = Lower(RemoveSpaces(choices.l[i].s))

\* C1: a fresh conversation has turn_index 0, and every completed turn persists
\* a turn_index exactly 1 greater than the one it loaded, whatever the branch of
\* validate_and_build_action that answered it: the persisted values are 1, 2, 3, ...
C1_TurnIndexIncrements ==
  /\ SessionsGet(store, UserKey).turn_index = 0
  /\ [][/\ loaded' = SessionsGet(store, UserKey)
        /\ SessionsGet(store', UserKey).turn_index = loaded'.turn_index + 1]_vars

\* a second turn, answered by the vehicle branch after a kiosk clarification
C1_SecondTurnPersisted ==
  /\ Saved.turn_index = 2
  /\ loaded.turn_index = 1
  /\ loaded.last_bot_action = "ask_option_group"
  /\ action.action_type = "vehicle_action"

C3_RecordedValueIsOffered ==
  (/\ TurnDone
   /\ loaded.last_bot_action = "ask_option_group"
   /\ AnswersChoice(req.user_message, loaded.pending_option_group_choices)
   /\ req.meta.store_id = StoreId)
  => /\ InList(Get(OptionGroupsToDict(Get(nlu2.slots, "option_groups")),
                   loaded.pending_option_group),
               loaded.pending_option_group_choices.l)
     /\ action.action_type = "add_to_cart"
        => InList(Get(action.payload.option_groups.d, loaded.pending_option_group),
                  loaded.pending_option_group_choices.l)

\* C4: a preference slot (level, subject, tone, ...) that holds a non-empty value
\* in the loaded state, and for which the turn brings no non-empty value, is still
\* there with an equal value in the state the turn saves
C4_StickyPersists ==
  \A k \in EDU_PREFERENCE_KEYS :
    (/\ TurnDone
     /\ HasNonempty(SlotValue(Get(loaded.slots, k)))
     /\ ~HasNonempty(SlotValue(Get(req.nlu.slots, k))))
    => /\ k \in DOMAIN Saved.slots
       /\ SlotValue(Saved.slots[k]) = SlotValue(loaded.slots[k])

\* the verdict of is_followup for the last turn
FollowupVerdict == IsFollowup(req.user_message, loaded, req.oracle.llm)

\* C5: in the slots apply_session_rules merges, an incoming value that is empty
\* (None, a wrapper of None or of a blank, an option-group entry with a null value)
\* never takes the place of a non-empty value the state held: a preference, the
\* topic of a follow-up, an option group chosen before
C5_EmptinessNeverOverwrites ==
  /\ \A k \in EDU_PREFERENCE_KEYS \cup {"topic"} :
       (/\ TurnDone
        /\ nlu2.domain = "education"
        /\ k = "topic" => FollowupVerdict
        /\ HasNonempty(SlotValue(Get(loaded.slots, k)))
        /\ ~HasNonempty(SlotValue(Get(req.nlu.slots, k))))
       => Get(nlu2.slots, k) = loaded.slots[k]
  /\ \A g \in {"temperature", "size"} :
       (/\ TurnDone
        /\ nlu2.domain = "kiosk"
        /\ loaded.last_bot_action = "ask_option_group"
        /\ ~LooksLikeNewOrder(req.user_message)
        /\ ~BlankOption(Get(OptionGroupsToDict(Get(loaded.slots, "option_groups")), g))
        /\ BlankOption(Get(OptionGroupsToDict(Get(req.nlu.slots, "option_groups")), g)))
       => ~BlankOption(Get(OptionGroupsToDict(Get(nlu2.slots, "option_groups")), g))

\* C6: when the turn is no follow-up, a context slot (topic, content,
\* student_answer, question) is in the merged slots, and in the saved ones, only
\* with a value the utterance grounds
C6_EpisodicReset ==
  (TurnDone /\ nlu2.domain = "education" /\ ~FollowupVerdict)
  => \A k \in EDU_CONTEXT_KEYS :
       /\ k \in DOMAIN nlu2.slots
          => ShouldKeepNewTopic(req.user_message, SlotValue(nlu2.slots[k]))
       /\ k \in DOMAIN Saved.slots
          => ShouldKeepNewTopic(req.user_message, SlotValue(Saved.slots[k]))

\* the state held a topic, the turn is no follow-up and names no grounded topic:
\* the saved slots hold no topic, the level is kept
C6_TopicDropped ==
  /\ TurnDone
  /\ HasNonempty(SlotValue(Get(loaded.slots, "topic")))
  /\ HasNonempty(SlotValue(Get(req.nlu.slots, "topic")))
  /\ ~FollowupVerdict
  /\ "topic" \notin DOMAIN Saved.slots
  /\ "level" \in DOMAIN Saved.slots

\* the merged option groups of the last turn, as the validator reads them
MergedOptionGroups ==
  With([og0 \in {NormalizeOptionGroups(GetSlotValue(nlu2.slots, "option_groups"))} |->
  IF "temperature" \in DOMAIN og0
  THEN Put(og0, "temperature", NormalizeTemperatureValue(og0["temperature"])) ELSE og0])

\* the catalog item the last add_item turn is about
OrderedItem == LookupItem(req.meta, GetSlotValue(nlu2.slots, "item_name"), MergedOptionGroups).item

\* the places, in the item's required list, of the groups without a value
MissingRequired ==
  {i \in 1..Len(RequiredOf(OrderedItem)) :
     BlankOption(Get(MergedOptionGroups, RequiredOf(OrderedItem)[i]))}

\* C8: an add_item turn for an item of the catalog asks for the first required
\* option group without a value, with the catalog's choices, and records the
\* group, the choices and ask_option_group in the state; it adds to the cart
\* only when every required group has a value
C8_RequiredOptionGroupAsked ==
  (/\ TurnDone
   /\ nlu2.domain = "kiosk" /\ nlu2.intent = "add_item"
   /\ req.meta.store_id # NoId
   /\ ~Falsy(GetSlotValue(nlu2.slots, "item_name"))
   /\ OrderedItem.found)
  => IF MissingRequired # {}
     THEN \E g \in {RequiredOf(OrderedItem)[Min(MissingRequired)]} :
            /\ action.action_type = "ask_option_group"
            /\ action.expect_option_group = g
            /\ g \in DOMAIN OrderedItem.option_groups
            /\ action.choices = ListV(OrderedItem.option_groups[g])
            /\ Saved.pending_option_group = g
            /\ Saved.pending_option_group_choices = action.choices
            /\ Saved.last_bot_action = "ask_option_group"
     ELSE action.action_type = "add_to_cart"

\* the first turn orders the latte with its temperature and the size is asked
C8_SizeAskedWithTemperatureGiven ==
  /\ TurnDone
  /\ loaded.turn_index = 0
  /\ OrderedItem.found /\ OrderedItem.name = T_latte
  /\ ~BlankOption(Get(MergedOptionGroups, "temperature"))
  /\ action.action_type = "ask_option_group"
  /\ action.expect_option_group = "size"
  /\ Saved.pending_option_group = "size"

\* the vehicle status the validator checks the request against: the mirror of the
\* state overwritten by what the request reports
CurrentStatus == Update(loaded.vehicle_status, req.meta.vehicle_status)

\* the verdict of check_action_validity for the last turn
ConflictReason ==
  CheckActionValidity(nlu2.intent, nlu2.slots, CurrentStatus, req.meta.supported_features)

\* C7: when a slot the schema requires for the intent is missing from the merged
\* slots, the action is ask_slot, the state records ask_slot as the last action,
\* and no vehicle_action is emitted
C7_MissingSlotAsked ==
  (TurnDone /\ nlu2.domain = "driving")
  => \A x \in RequiredSlots(nlu2.intent) :
       ~HasNonempty(SlotValue(Get(nlu2.slots, x)))
       => /\ action.action_type = "ask_slot"
          /\ Saved.last_bot_action = "ask_slot"

\* C9: a request for what the vehicle status already shows (closing what is
\* closed, switching off what is off) is answered, not executed, and leaves the
\* status mirror as it was, whatever the safety check answers or fails to answer
C9_RedundantRequestNotExecuted ==
  (/\ TurnDone
   /\ nlu2.domain = "driving"
   /\ ConflictReason \in {"already_closed", "already_open", "already_on", "already_off",
                          "hvac_already_off"})
  => /\ action.action_type = "answer"
     /\ action.command = NoCommand
     /\ Saved.vehicle_status = loaded.vehicle_status

\* C10: with a list of supported features that lacks the feature of the requested
\* part (the basic parts and the window apart), the answer is the unsupported one,
\* no command is sent and the status mirror stays as it was, whatever the current
\* vehicle status, an empty one included
C10_UnsupportedFeatureRefused ==
  (/\ TurnDone
   /\ nlu2.domain = "driving"
   /\ nlu2.intent = "control_hardware"
   /\ IsList(req.meta.supported_features)
   /\ Norm(GetSlotValue(nlu2.slots, "target_part")) \notin BasicParts \cup {T_window}
   /\ ~InList(StrV(FeatureName(Norm(GetSlotValue(nlu2.slots, "target_part")),
                               Norm(GetSlotValue(nlu2.slots, "location_detail")))),
              req.meta.supported_features.l))
  => /\ action.action_type = "answer"
     /\ action.status = "unsupported"
     /\ action.command = NoCommand
     /\ Saved.vehicle_status = loaded.vehicle_status

\* C11: after a turn that executes (add_to_cart, vehicle_action) the saved state
\* has no pending option group, no pending choices, and names the executed
\* intent as the last action
C11_ExecuteClearsPending ==
  (TurnDone /\ action.action_type \in {"add_to_cart", "vehicle_action"})
  => /\ Saved.pending_option_group = NoId
     /\ Saved.pending_option_group_choices = NoneV
     /\ Saved.last_bot_action = nlu2.intent

\* C12: the slots a turn saves are the slot map the normalizer and the validator
\* produced for this turn, never the slots of the loaded state: on every branch
\* that answers, the saved slots are the normalized slots (for a climate request,
\* with the validator's hvac_mode correction)
C12_SlotsReplacedWholesale ==
  (TurnDone /\ action.action_type = "answer")
  => Saved.slots \in {nlu2.slots,
                      HvacModeCorrection(nlu2.slots, req.meta.user_message_preview)}

\* the last turn is an order whose item the catalog does not know, by the name as
\* given or by any recovered candidate
LookupMissed ==
  /\ TurnDone
  /\ nlu2.domain = "kiosk" /\ nlu2.intent = "add_item"
  /\ req.meta.store_id # NoId /\ req.meta.kiosk_type # NoId
  /\ ~Falsy(GetSlotValue(nlu2.slots, "item_name"))
  /\ ~OrderedItem.found

\* C13: a lookup miss is answered by an answer action, and the saved state is the
\* loaded state (slots, domain, intent, pending option group and its choices,
\* last action, vehicle status) but for turn_index, one more, and the reason
C13_LookupMissPreservesState ==
  LookupMissed
  => /\ action.action_type = "answer"
     /\ Saved = [loaded EXCEPT !.turn_index = loaded.turn_index + 1,
                               !.debug_last_reason = "menu_not_found"]

\* a lookup miss during a pending clarification, after a recovered candidate was
\* tried: the order and the pending question are still in the saved state
C13_MissDuringClarification ==
  /\ LookupMissed
  /\ loaded.pending_option_group = "temperature"
  /\ loaded.slots # EmptyDict
  /\ RecoverItemNameCandidates(GetSlotValue(nlu2.slots, "item_name"), MergedOptionGroups) # <<>>
  /\ Saved.pending_option_group = "temperature"
  /\ Saved.slots = loaded.slots
  /\ Saved.turn_index = 2

\* C14: the turn_index of the conversation's document in the store never goes
\* down, whatever the order of the get and set steps of its concurrent requests
C14_StoredTurnIndexNonDecreasing ==
  [][SessionsGet(store', UserKey).turn_index >= SessionsGet(store, UserKey).turn_index]_vars

\* requests p and q loaded the same state and both saved, q last
BothSaved(p, q) ==
  /\ p # q
  /\ inflight[p].pc = "done" /\ inflight[q].pc = "done"
  /\ inflight[p].state = inflight[q].state
  /\ resp.status = "ok" /\ resp.by = q
  /\ ~unparsable

\* C15: when two requests of one conversation load the same state and both save,
\* the stored state is the one the later request built: its slots alone, and a
\* turn_index one above the loaded one, not two
C15_LaterWriterWins ==
  \A p, q \in RequestIds :
    BothSaved(p, q)
    => /\ Saved = inflight[q].new_state
       /\ Saved.slots = inflight[q].new_state.slots
       /\ Saved.turn_index = inflight[p].state.turn_index + 1

\* a lost update: both requests saved slots, the first a level the second did not
\* have, and the stored state has the second request's slots only, at turn_index 1
C15_LostUpdate ==
  /\ BothSaved("r1", "r2")
  /\ inflight["r1"].state.turn_index = 0
  /\ "level" \in DOMAIN inflight["r1"].new_state.slots
  /\ "target_part" \in DOMAIN inflight["r2"].new_state.slots
  /\ "level" \notin DOMAIN Saved.slots
  /\ "target_part" \in DOMAIN Saved.slots
  /\ Saved.turn_index = 1

\* C16: the store changes only in the step in which a request saves its new
\* state: loading a state, failing and being dropped before the save leave the
\* store as it was, a store without document of the conversation included
C16_OnlyCommitWrites ==
  [][store' # store
     => \E p \in RequestIds : inflight[p].pc = "loaded" /\ inflight'[p].pc = "done"]_vars

\* C17: a document that does not parse fails no request: no request ends with
\* the internal error at the load of the state (the conversation is given a new
\* default state instead, which the request and the later ones load)
C17_UnparsableDocumentReset ==
  ~(resp.status = "internal_error" /\ resp.stage = "state_loaded")

\* C18: a request whose NLU model or reply generation fails still ends with a
\* response and saves a state with turn_index one above the one it loaded
C18_OracleFailureRecovered ==
  (resp.status \in {"ok", "internal_error"} /\ resp.stage # "state_loaded"
   /\ (~resp.nlu_ok \/ ~resp.reply_ok) /\ resp.catalog # "error")
  => /\ resp.status = "ok"
     /\ inflight[resp.by].pc = "done"
        => inflight[resp.by].new_state.turn_index = inflight[resp.by].state.turn_index + 1

\* C19: an error of the catalog during the validation fails no request: the
\* request is answered by an answer action and saves a state with a reason
C19_CatalogErrorNotFatal ==
  resp.catalog = "error"
  => /\ resp.status = "ok"
     /\ action.action_type = "answer"
     /\ inflight[resp.by].new_state.debug_last_reason # NoId

\* C20: without the NLU model the NLU result of a request is the fallback intent
\* of the domain its mode names, with no slots
C20_FallbackNluIsEmpty ==
  (resp.status = "ok" /\ ~resp.nlu_ok)
  => /\ req.nlu.intent = "fallback"
     /\ req.nlu.slots = EmptyDict
     /\ req.nlu.domain \in {"kiosk", "education"}

\* the signals of the heuristic that an utterance and a last action fire
SignalPending(last) == last \in {"ask_slot", "ask_option_group"}
SignalShort(m) == Len(Strip(m)) <= 10
SignalPrefix(m) == \E i \in 1..Len(FollowupPrefixes) :
                     MatchesAt(Strip(m), 1, FollowupPrefixes[i], FALSE, TRUE)
SignalReferential(m) == Contains(m, T_geugeo) \/ Contains(m, T_igeo)
SignalQuestion(m) ==
  /\ SignalPrefix(m)
  /\ \/ Contains(m, <<"?">>)
     \/ Strip(m) # <<>> /\ Strip(m)[Len(Strip(m))] \in {"k_yo", "k_ya", "k_nya"}

\* the sum of the weights of the fired signals, in hundredths
WeightSum(m, last) ==
  (IF SignalPending(last) THEN 65 ELSE 0) + (IF SignalShort(m) THEN 20 ELSE 0)
  + (IF SignalPrefix(m) THEN 25 ELSE 0) + (IF SignalReferential(m) THEN 20 ELSE 0)
  + (IF SignalQuestion(m) THEN 10 ELSE 0)

\* C21: without an answer of the continuation oracle, the verdict of is_followup
\* is that the sum of the weights of the fired signals (pending question 0.65,
\* short 0.20, prefix 0.25, referential 0.20, prefix with question 0.10), capped
\* at 1, reaches 0.55; a last action ask_slot or ask_option_group alone suffices
C21_HeuristicVerdict ==
  (probe.fn = "is_followup" /\ probe.llm = "none")
  => /\ probe.score = IF WeightSum(probe.user_message, probe.last_bot_action) > 100 THEN 100
                      ELSE WeightSum(probe.user_message, probe.last_bot_action)
     /\ probe.verdict = (WeightSum(probe.user_message, probe.last_bot_action) >= 55)
     /\ SignalPending(probe.last_bot_action) => probe.verdict

\* a long utterance without any marker after an ask_option_group is a follow-up
C21_PendingAloneSuffices ==
  /\ probe.fn = "is_followup" /\ probe.llm = "none"
  /\ probe.last_bot_action = "ask_option_group"
  /\ probe.user_message = T_long
  /\ probe.score = 65
  /\ probe.verdict

\* the content of the oracle's answer has the shape asked for: an object with a
\* boolean is_followup and a confidence that is a number, if any
VerdictShaped(r) ==
  /\ r.kind = "content" /\ r.parsed /\ IsDict(r.data)
  /\ IsBool(Get(r.data.d, "is_followup"))
  /\ IsNone(Get(r.data.d, "confidence")) \/ IsInt(Get(r.data.d, "confidence"))

\* C22: when the continuation oracle answers with a verdict, is_followup returns
\* that boolean whatever the heuristic score; when it is off, raises or answers
\* with anything else than a verdict, is_followup returns the heuristic verdict
C22_OracleFirstThenHeuristic ==
  probe.fn = "is_followup"
  => IF VerdictShaped(probe.response)
     THEN probe.verdict = Get(probe.response.data.d, "is_followup").b
     ELSE probe.verdict = (probe.score >= FollowupThreshold)

C24_NoEmptySlotStored ==
  \A k \in DOMAIN Saved.slots : HasNonempty(SlotValue(Saved.slots[k]))

\* the entries a turn adds to the history: the user's, then the assistant's if
\* the history ends with one
AddedEntries(h, m) ==
  IF h # <<>> /\ h[Len(h)].role = "assistant" /\ Len(h) >= 2
  THEN <<Entry("user", m), h[Len(h)]>>
  ELSE <<Entry("user", m)>>

\* C25: the saved history has at most 30 entries; a turn adds the user's
\* utterance and then the assistant's reply at the end, and leaves before them
\* the entries the history had, in their order, but for oldest ones at the
\* front, removed only when the history is full
C25_HistoryBounded ==
  [][LET added == AddedEntries(history', req'.user_message)
         kept == Len(history') - Len(added)
         dropped == Len(history) - kept
     IN /\ Len(history') <= 30
        /\ kept >= 0 /\ dropped >= 0
        /\ SubSeq(history', kept + 1, Len(history')) = added
        /\ SubSeq(history', 1, kept) = SubSeq(history, dropped + 1, Len(history))
        /\ dropped > 0 => Len(history') = 30]_vars

\* a turn on a full history: the two oldest entries are gone, the user's and the
\* assistant's entries are the last two
C25_FullHistoryTrimmed ==
  /\ Len(history) = 30
  /\ Saved.turn_index = 16
  /\ history[29] = Entry("user", T_ok)
  /\ history[30] = Entry("assistant", T_sure)
  /\ history[1].role = "user"

\* the pairs validate_and_build_action routes to a domain action: the intents the
\* driving branch implements, the kiosk's order, every intent of education
DrivingImplemented == {"general_chat", "control_hvac", "control_hardware", "navigate_to", "find_poi"}

Routed(domain, intent) ==
  \/ domain = "driving" /\ intent \in DrivingImplemented
  \/ domain = "kiosk" /\ intent = "add_item"
  \/ domain = "education"

\* C26: a turn whose (domain, intent) the validator routes to no domain action
\* is answered by a generic answer, never by a command, and the state saved
\* holds the merged slots it was called with
C26_UnroutableIsGenericAnswer ==
  (TurnDone /\ ~Routed(nlu2.domain, nlu2.intent)) =>
     /\ action.action_type = "answer"
     /\ action.command = NoCommand
     /\ Saved.slots = nlu2.slots

\* the kiosk's unroutable turn: a question about the store is answered generically
C26_UnroutableKioskAnswered ==
  /\ TurnDone /\ nlu2.domain = "kiosk" /\ nlu2.intent = "ask_store_info"
  /\ action.action_type = "answer"
  /\ Saved.slots = nlu2.slots

\* the value the carry-forward rule gives key k: the incoming slot when its value
\* is present and not empty, otherwise the slot of the prior state
CarriedForward(prev_slots, slots_in, k) ==
  IF HasNonempty(SlotValue(Get(slots_in, k))) THEN Get(slots_in, k) ELSE Get(prev_slots, k)

\* C27: on a follow-up turn of education every episodic key (topic, content,
\* student_answer, question) that the carry-forward rule gives a value, the
\* incoming one when it is not empty and the prior one otherwise, is in the
\* merged slots with that value
C27_EpisodicCarriedOnFollowup ==
  (TurnDone /\ nlu2.domain = "education" /\ FollowupVerdict)
  => \A k \in EDU_CONTEXT_KEYS :
       ~IsNone(CarriedForward(loaded.slots, nlu2.slots_in, k))
       => Get(nlu2.slots, k) = CarriedForward(loaded.slots, nlu2.slots_in, k)

\* the topic alone on a follow-up turn: a topic of the state is carried into a
\* turn that names none
C27_TopicCarriedOnFollowup ==
  /\ TurnDone /\ nlu2.domain = "education" /\ FollowupVerdict
  /\ HasNonempty(SlotValue(Get(loaded.slots, "topic")))
  /\ ~HasNonempty(SlotValue(Get(nlu2.slots_in, "topic")))
  /\ Get(nlu2.slots, "topic") = Get(loaded.slots, "topic")

\* the turn found a clarification pending in the state it loaded, with an active intent
PendingClarification ==
  /\ TurnDone
  /\ loaded.pending_option_group # NoId
  /\ loaded.last_bot_action = "ask_option_group"
  /\ loaded.active_intent # NoId

\* C28, as stated: while a clarification is pending and the state has an active
\* intent, the intent apply_session_rules outputs is the state's active intent,
\* whatever the domain of the turn
C28_PendingKeepsIntentAnyDomain == PendingClarification => nlu2.intent = loaded.active_intent

\* C28: while a clarification is pending and the state has an active intent, the
\* intent apply_session_rules outputs for a turn whose domain is not education is
\* the state's active intent, whatever intent the NLU result names
C28_PendingKeepsIntent ==
  (PendingClarification /\ nlu2.domain # "education") => nlu2.intent = loaded.active_intent

\* a question about the store during the clarification of an order: the turn
\* stays an add_item
C28_OtherIntentOverridden ==
  /\ PendingClarification
  /\ req.nlu.intent = "ask_store_info"
  /\ loaded.active_intent = "add_item"
  /\ nlu2.intent = "add_item"

\* the value a slots dict records for an option group, NoneV when it records none
GroupValue(slots, g) == Get(OptionGroupsToDict(Get(slots, "option_groups")), g)

\* the heuristic coercion of the utterance to a value of the pending group
HeuristicCoercion(msg, pending_group, pending_choices) ==
  With([coerced0 \in {IF pending_group = "temperature" THEN NormTemp(msg)
       ELSE IF pending_group = "size" THEN NormSize(msg) ELSE NoneV} |->
  IF IsNone(coerced0) /\ IsList(pending_choices)
  THEN FirstChoiceMatching(pending_choices.l, Lower(RemoveSpaces(msg)))
  ELSE coerced0])

\* the turn answers a pending clarification and its NLU result has a value for
\* the pending group
OracleValueForPending ==
  /\ PendingClarification
  /\ nlu2.domain # "education"
  /\ ~IsNone(GroupValue(req.nlu.slots, loaded.pending_option_group))

\* C29: during a pending clarification, a value of the NLU result for the pending
\* group that matches an offered choice (case and whitespace ignored) is the
\* value recorded for the group, before the coercion of the utterance; a value
\* that matches no offered choice is not recorded, the group gets what the
\* coercion of the utterance gives
C29_OracleValueIffOffered ==
  OracleValueForPending =>
    LET g == loaded.pending_option_group
        cand == GroupValue(req.nlu.slots, g)
        matched == ChoiceMatch(cand, loaded.pending_option_group_choices)
        heur == HeuristicCoercion(Strip(req.user_message), g, loaded.pending_option_group_choices)
        rec == GroupValue(nlu2.slots, g)
    IN IF ~IsNone(matched) THEN rec = matched
       ELSE rec = heur \/ rec = GroupValue(loaded.slots, g)

\* the coercion of a clarification answer fails: neither the utterance nor the
\* NLU result gives a value for the pending group or for the other group
CoercionFails(st, n, user_message) ==
  LET g == st.pending_option_group
      msg == Strip(user_message)
      og == OptionGroupsToDict(Get(n.slots, "option_groups"))
  IN /\ IsNone(HeuristicCoercion(msg, g, st.pending_option_group_choices))
     /\ g = "temperature" => IsNone(NormSize(msg))
     /\ g = "size" => IsNone(NormTemp(msg))
     /\ g \in DOMAIN og => IsNone(TakeLlmOptionGroup(og[g], st.pending_option_group_choices))

\* the turn abandoned the clarification its state held
Abandoned ==
  /\ TurnDone
  /\ nlu2.domain # "education"
  /\ loaded.pending_option_group # NoId
  /\ loaded.last_bot_action = "ask_option_group"
  /\ CoercionFails(loaded, req.nlu, req.user_message)
  /\ LooksLikeNewOrder(Strip(req.user_message))

\* the state with its pending clarification removed
WithoutPending(st) ==
  [st EXCEPT !.pending_option_group = NoId, !.pending_option_group_choices = NoneV]

\* the option groups a slots dict gives a value
GroupsWithValue(slots) ==
  LET og == OptionGroupsToDict(Get(slots, "option_groups"))
  IN Restrict(og, {g \in DOMAIN og : ~IsNone(og[g])})

\* C30: a turn that abandons the pending clarification comes out of
\* apply_session_rules with the intent and the merged slots, the option groups
\* of the NLU result included, that the same NLU result and utterance give on
\* the state without the pending clarification (option groups without a value
\* are not compared)
C30_AbandonEqualsNoPending ==
  Abandoned =>
    LET o == ApplySessionRules(WithoutPending(loaded), req.nlu, req.user_message, req.oracle.llm)
    IN /\ nlu2.intent = o.intent
       /\ Pop(nlu2.slots, "option_groups") = Pop(o.slots, "option_groups")
       /\ GroupsWithValue(nlu2.slots) = GroupsWithValue(o.slots)

\* no value is resolved for the pending group: the utterance coerces to no value
\* of either group and the NLU result has no value for the pending group that
\* matches an offered choice
NoResolution(st, n, user_message) ==
  LET g == st.pending_option_group
      msg == Strip(user_message)
  IN /\ IsNone(HeuristicCoercion(msg, g, st.pending_option_group_choices))
     /\ g = "temperature" => IsNone(NormSize(msg))
     /\ g = "size" => IsNone(NormTemp(msg))
     /\ IsNone(ChoiceMatch(GroupValue(n.slots, g), st.pending_option_group_choices))

\* the turn answers a pending clarification, resolves nothing and is no new request
UnresolvedAnswer ==
  /\ TurnDone
  /\ nlu2.domain # "education"
  /\ loaded.pending_option_group # NoId
  /\ loaded.last_bot_action = "ask_option_group"
  /\ NoResolution(loaded, req.nlu, req.user_message)
  /\ ~LooksLikeNewOrder(Strip(req.user_message))

\* C31: during a pending clarification, when no value is resolved for the pending
\* group and the utterance is no new request, the merged option_groups are the
\* option_groups of the prior state: an empty or non-offered value of the NLU
\* result for the pending group does not replace them
C31_UnresolvedKeepsCarriedGroups ==
  UnresolvedAnswer => Get(nlu2.slots, "option_groups") = Get(loaded.slots, "option_groups")

\* the turn before ended in a conflict of the safety check, and this turn is a
\* confirmation: the utterance "ok", an NLU result of the driving domain without
\* a slot value
ConfirmingAfterConflict ==
  /\ TurnDone
  /\ loaded.debug_last_reason = "llm_safety_conflict"
  /\ nlu2.domain = "driving"
  /\ req.user_message = T_ok
  /\ \A k \in DOMAIN req.nlu.slots : ~HasNonempty(SlotValue(req.nlu.slots[k]))

\* C32: the state after a conflict keeps the slots of the request, and the
\* confirming turn that follows has them in its merged slots
C32_ConflictSlotsAvailable ==
  /\ (TurnDone /\ Saved.debug_last_reason = "llm_safety_conflict")
       => \A k \in DOMAIN nlu2.slots : Get(Saved.slots, k) = nlu2.slots[k]
  /\ ConfirmingAfterConflict
       => \A k \in DOMAIN loaded.slots :
            HasNonempty(SlotValue(loaded.slots[k])) => Get(nlu2.slots, k) = loaded.slots[k]

\* the answers of check_action_validity for a request the status already satisfies
AlreadySatisfied == {"already_open", "already_closed", "already_on", "already_off", "hvac_already_off"}

\* the turn executed a device command check_action_validity has such an answer
\* for: a part opened, closed, switched on or off, the climate control switched off
ExecutedDeviceCommand ==
  /\ TurnDone
  /\ action.action_type = "vehicle_action"
  /\ \/ /\ nlu2.intent = "control_hardware"
        /\ Norm(GetSlotValue(nlu2.slots, "action")) \in {T_open, T_close, T_on, T_off}
     \/ /\ nlu2.intent = "control_hvac"
        /\ Norm(GetSlotValue(nlu2.slots, "action")) = T_off

\* C33: after an executed control_hardware or control_hvac command the status
\* mirror of the new state makes check_action_validity, called for the same
\* request with no status in meta, report the request as already satisfied
C33_RepeatedRequestAlreadySatisfied ==
  ExecutedDeviceCommand =>
    CheckActionValidity(nlu2.intent, nlu2.slots, Update(Saved.vehicle_status, EmptyDict),
                        req.meta.supported_features) \in AlreadySatisfied

\* the turn is no answer to a pending clarification
NotPendingAnswer ==
  /\ TurnDone
  /\ ~(loaded.pending_option_group # NoId /\ loaded.last_bot_action = "ask_option_group")

\* the keys of a domain that are neither sticky nor episodic: all of them in a
\* domain other than education
OtherKeys(domain, keys) ==
  IF domain = "education" THEN keys \ (EDU_PREFERENCE_KEYS \cup EDU_CONTEXT_KEYS) ELSE keys

\* C34: in a turn that answers no pending clarification, every slot key that is
\* neither sticky nor episodic, and every key of a domain without sticky and
\* episodic keys, has in the merged slots the incoming value when it is present
\* and not empty, and the value of the prior state otherwise
C34_OtherKeysIncomingElsePrior ==
  NotPendingAnswer =>
    \A k \in OtherKeys(nlu2.domain, DOMAIN loaded.slots \cup DOMAIN req.nlu.slots) :
      ~IsNone(CarriedForward(loaded.slots, req.nlu.slots, k))
      => Get(nlu2.slots, k) = CarriedForward(loaded.slots, req.nlu.slots, k)

\* C35: apply_session_rules leaves the NLU result it receives as it was: the
\* slot map of the result (slots_in, the dict the function works on) has after
\* the call the keys and values the oracle returned
C35_NluResultUnchanged == TurnDone => nlu2.slots_in = req.nlu.slots

\* the number a temperature request states, for the requests that state one
RequestedNumber(t) ==
  IF IsInt(t) THEN t.n
  ELSE IF t = StrV(T_20) THEN 20
  ELSE IF t = StrV(T_sp40) THEN 40
  ELSE 0 - 5

StatesNumber(t) == IsInt(t) \/ t \in {StrV(T_20), StrV(T_sp40), StrV(T_m5)}
StatesNoNumber(t) == t \in {StrV(T_abc), StrV(<<>>), ListV(<<>>)}

\* C36: the hvac_control command has target_temp null when the action is off;
\* otherwise a number below 16 gives 16, one above 32 gives 32, one between
\* them itself, a request that is no number 22, a missing one 28 for heat, 18
\* for cool, 22 for auto or for switching on and null for the rest; target_temp
\* is in every case null or an integer of 16..32
C36_TargetTempClamped ==
  probe.fn = "build_vehicle_command" =>
    LET t == probe.temp
        act == Norm(probe.act)
        mode == Norm(probe.mode)
        out == probe.command.params.target_temp
    IN /\ probe.command.type = "hvac_control"
       /\ IsNone(out) \/ (IsInt(out) /\ out.n \in 16..32)
       /\ act = T_off => IsNone(out)
       /\ (act # T_off /\ StatesNumber(t)) =>
            out = IntV(IF RequestedNumber(t) < 16 THEN 16
                       ELSE IF RequestedNumber(t) > 32 THEN 32 ELSE RequestedNumber(t))
       /\ (act # T_off /\ StatesNoNumber(t)) => out = IntV(22)
       /\ (act # T_off /\ IsNone(t)) =>
            out = (IF mode = T_heat THEN IntV(28)
                   ELSE IF mode = T_cool THEN IntV(18)
                   ELSE IF mode = T_auto \/ act \in {T_on, <<>>} THEN IntV(22)
                   ELSE NoneV)

\* a request for 33 degrees with the heating on comes out at 32
C36_AboveRangeClamped ==
  /\ probe.fn = "build_vehicle_command"
  /\ probe.temp = IntV(33) /\ probe.act = StrV(T_on) /\ probe.mode = StrV(T_heat)
  /\ probe.command.params.target_temp = IntV(32)

\* heater and ventilation of a seat are both on in a status
BothOn(status, seat) ==
  /\ Get(status, "seat_heater_" \o seat) = StrV(T_on)
  /\ Get(status, "seat_ventilation_" \o seat) = StrV(T_on)

\* C37: in a sequence of executed control_hardware commands, with no status
\* from meta, the status mirror never shows heater and ventilation of the
\* driver's seat both on, nor those of the passenger's seat
C37_HeaterVentilationExclusive ==
  /\ ~BothOn(Saved.vehicle_status, "driver")
  /\ ~BothOn(Saved.vehicle_status, "passenger")

\* the ventilation switched on while the heater was on: the heater is off
C37_VentilationTurnsHeaterOff ==
  /\ TurnDone
  /\ action.action_type = "vehicle_action"
  /\ Get(loaded.vehicle_status, "seat_heater_driver") = StrV(T_on)
  /\ Get(Saved.vehicle_status, "seat_ventilation_driver") = StrV(T_on)
  /\ Get(Saved.vehicle_status, "seat_heater_driver") = StrV(T_off)

\* the user states a value for group g in this turn: the utterance names one, or
\* the NLU result carries one
StatesValue(g) ==
  \/ g = "temperature" /\ ~IsNone(NormTemp(Strip(req.user_message)))
  \/ g = "size" /\ ~IsNone(NormSize(Strip(req.user_message)))
  \/ ~BlankOption(GroupValue(req.nlu.slots, g))

\* the turn answers the clarification of its state and resolves the group asked
ResolvingAnswer ==
  /\ PendingClarification
  /\ nlu2.domain = "kiosk"
  /\ ~BlankOption(GroupValue(nlu2.slots, loaded.pending_option_group))

SafetyOracleFailed ==
  /\ TurnDone
  /\ nlu2.domain = "driving"
  /\ nlu2.intent \in {"control_hvac", "control_hardware"}
  /\ req.oracle.safety = "fail"
  /\ CheckActionValidity(nlu2.intent, nlu2.slots,
                         Update(loaded.vehicle_status, req.meta.vehicle_status),
                         req.meta.supported_features) # "feature_not_supported"

\* C39: when the safety oracle fails, a control_hvac or control_hardware request
\* that passed the feature check is executed: the action is the vehicle_action,
\* and action and new state are those of the oracle answering execute, the
\* status mirror advanced by the command
C39_SafetyFailsOpen ==
  SafetyOracleFailed =>
    LET r == ValidateAndBuildAction(nlu2.domain, nlu2.intent, nlu2.slots, req.meta, loaded,
                                    [req.oracle EXCEPT !.safety = "execute"])
    IN /\ action.action_type = "vehicle_action"
       /\ action = r.action
       /\ Saved = r.new_state
       /\ Saved.vehicle_status =
            UpdateVehicleStatusSimulation(Update(loaded.vehicle_status, req.meta.vehicle_status),
                                          nlu2.intent, action.command.params)

\* the sunroof opened with the oracle out of reach: the mirror shows it open
C39_SunroofOpenedWithoutOracle ==
  /\ SafetyOracleFailed
  /\ nlu2.intent = "control_hardware"
  /\ Get(loaded.vehicle_status, "sunroof") # StrV(T_open)
  /\ Get(Saved.vehicle_status, "sunroof") = StrV(T_open)
  /\ action.command.type = "hardware_control"

\* C40: a get returns the state the last set of the same (platform_id, user_id)
\* wrote, for every identity, one with an empty or blank user_id included
C40_StoreRoundTrip ==
  (probe.fn = "get" /\ <<probe.platform_id, probe.user_id>> \in DOMAIN probe.written)
  => probe.returned = probe.written[<<probe.platform_id, probe.user_id>>]

============================================================================
